---- MODULE Spec2Model ----
(***************************************************************************)
(* Index planning engine of refrepo: ignore rules, the tree walker, the   *)
(* per-repo plan, the warning ladder and the plan summary.                 *)
(*                                                                         *)
(* A file or directory name is the tuple of its dot-separated segments:    *)
(*   "index.ts" = <<"index","ts">>, ".env" = <<"","env">>,                 *)
(*   ".env.example" = <<"","env","example">>.                              *)
(* A path string is a sequence of tokens: names and separator tokens.      *)
(***************************************************************************)
EXTENDS Integers, Sequences, FiniteSets, TLC

SLASH == <<"/">>
BACKSLASH == <<"\\">>

\* ------------------------------------------------------------------ bounds
MaxTreeEntries == 3
MaxRepos == 2
MaxAggPerDir == 3
MaxAggDirs == 4
MaxPaths == 3
MaxRuns == 2
MaxSuggestEntries == 1
MaxPatterns == 2
MaxChunks == 2
MaxSyncRepos == 2
MaxExtraPushes == 1

\* --------------------------------------------------------------- constants
DEFAULT_MAX_FILE_SIZE_BYTES == 1 * 1024 * 1024

PLAN_THRESHOLDS ==
  [maxTotalBytesWarning |-> 15 * 1024 * 1024,
   maxTotalBytesError   |-> 50 * 1024 * 1024,
   maxFileCountWarning  |-> 2500,
   maxFileCountError    |-> 10000]

\* Thresholds of the specification's third worked example.
EXAMPLE3_THRESHOLDS ==
  [maxTotalBytesWarning |-> 1000,
   maxTotalBytesError   |-> 5000,
   maxFileCountWarning  |-> 2,
   maxFileCountError    |-> 5]

\* ------------------------------------------------------------ ignore rules
\* A pattern of the source tables, parsed: '!' marker, '/'-separated
\* components (each a tuple of dot-separated segments, "*" a wildcard
\* segment), trailing '/'.
Pat(neg, comps, dir) == [neg |-> neg, comps |-> comps, dir |-> dir]

\* A representative part of the table, in declaration order.
\* Variant: the table without its 'node_modules/' row.
GLOBAL_IGNORE_PATTERNS_noModules ==
  << Pat(FALSE, << <<"dist">> >>, TRUE),
     Pat(FALSE, << <<"", "git">> >>, TRUE),
     Pat(FALSE, << <<"", "env">> >>, FALSE),
     Pat(FALSE, << <<"", "env", "*">> >>, FALSE),
     Pat(TRUE,  << <<"", "env", "example">> >>, FALSE),
     Pat(FALSE, << <<"*", "log">> >>, FALSE) >>

GLOBAL_IGNORE_PATTERNS ==
  << Pat(FALSE, << <<"dist">> >>, TRUE),
     Pat(FALSE, << <<"node_modules">> >>, TRUE),
     Pat(FALSE, << <<"", "git">> >>, TRUE),
     Pat(FALSE, << <<"", "env">> >>, FALSE),
     Pat(FALSE, << <<"", "env", "*">> >>, FALSE),
     Pat(TRUE,  << <<"", "env", "example">> >>, FALSE),
     Pat(FALSE, << <<"*", "log">> >>, FALSE) >>

REPO_SPECIFIC_IGNORES ==
  << [id |-> "convex-helpers", notes |-> "Keep only high-value server modules",
      dropPaths |-> << Pat(FALSE, << <<"scripts">> >>, TRUE),
                       Pat(FALSE, << <<"src">> >>, TRUE),
                       Pat(FALSE, << <<"packages">>, <<"convex-helpers">>, <<"index", "ts">> >>, FALSE) >>],
     [id |-> "tanstack-start-dashboard", notes |-> "Dashboard example",
      dropPaths |-> << >>] >>

RepoIds == {"convex-helpers", "tanstack-start-dashboard", "unknown-repo"}

\* find(): the first entry with the id, or the empty sequence (undefined).
getRepoIgnoreConfig(repoId) ==
  LET hits == {i \in 1..Len(REPO_SPECIFIC_IGNORES) : REPO_SPECIFIC_IGNORES[i].id = repoId}
  IN IF hits = {} THEN << >>
     ELSE << REPO_SPECIFIC_IGNORES[CHOOSE i \in hits : \A j \in hits : i <= j] >>

CommentLine(t) == [kind |-> "comment", text |-> t]
BlankLine == [kind |-> "blank"]
\* A pattern line: bang = '!' is the first character, prefixed = '**/' follows.
PatternLine(bang, prefixed, comps, dir) ==
  [kind |-> "pattern", bang |-> bang, prefixed |-> prefixed, comps |-> comps, dir |-> dir]

\* Variant: every pattern gets the prefix in front, the '!' is not kept first.
GlobalLine_prefixOnly(p) == PatternLine(FALSE, TRUE, p.comps, p.dir)

\* `!**/${pattern.slice(1)}` for a negation, `**/${pattern}` otherwise.
GlobalLine(p) ==
  IF p.neg THEN PatternLine(TRUE, TRUE, p.comps, p.dir)
           ELSE PatternLine(FALSE, TRUE, p.comps, p.dir)

buildIgnoreContent(repoId) ==
  LET header == << CommentLine("==="), CommentLine("AUTO-GENERATED by refrepo ignore build"),
                   CommentLine("Do not edit manually"), CommentLine("==="),
                   BlankLine, CommentLine("Global ignore rules") >>
      globals == [i \in 1..Len(GLOBAL_IGNORE_PATTERNS) |-> GlobalLine(GLOBAL_IGNORE_PATTERNS[i])]
      cfg == getRepoIgnoreConfig(repoId)
      specific ==
        IF cfg # << >> /\ Len(cfg[1].dropPaths) > 0
        THEN << BlankLine, CommentLine("==="), CommentLine("Repo-specific: " \o cfg[1].notes),
                CommentLine("===") >>
             \o [i \in 1..Len(cfg[1].dropPaths) |->
                   PatternLine(cfg[1].dropPaths[i].neg, FALSE,
                               cfg[1].dropPaths[i].comps, cfg[1].dropPaths[i].dir)]
        ELSE << >>
  IN header \o globals \o specific \o << BlankLine >>

\* ignore().add(content): comment and blank lines are dropped; a pattern
\* with a separator before its end and no '**/' in front is anchored.
SelectPatternLines(lines) == SelectSeq(lines, LAMBDA l : l.kind = "pattern")

IgnoreAdd(content) ==
  LET pl == SelectPatternLines(content)
  IN [i \in 1..Len(pl) |->
        [negative |-> pl[i].bang,
         dirOnly  |-> pl[i].dir,
         anchored |-> ~pl[i].prefixed /\ Len(pl[i].comps) > 1,
         comps    |-> pl[i].comps]]

\* A rule set with a negation that re-includes a visible file, in the form
\* IgnoreAdd produces: '*.log' then '!keep.log'.
NEGATION_RULES ==
  << [negative |-> FALSE, dirOnly |-> FALSE, anchored |-> FALSE, comps |-> << <<"*", "log">> >>],
     [negative |-> TRUE,  dirOnly |-> FALSE, anchored |-> FALSE, comps |-> << <<"keep", "log">> >>] >>

RECURSIVE GlobMatch(_, _)
GlobMatch(pat, name) ==
  IF pat = << >> THEN name = << >>
  ELSE IF Head(pat) = "*"
       THEN \E k \in 1..Len(name) : GlobMatch(Tail(pat), SubSeq(name, k + 1, Len(name)))
       ELSE name # << >> /\ Head(name) = Head(pat) /\ GlobMatch(Tail(pat), Tail(name))

\* ------------------------------------------------------------ path strings
\* path.relative(baseDir, path.join(dir, name)): the components joined by
\* the separator of the host platform.
RECURSIVE JoinWith(_, _)
JoinWith(comps, s) ==
  IF Len(comps) = 0 THEN << >>
  ELSE IF Len(comps) = 1 THEN << comps[1] >>
  ELSE << comps[1], s >> \o JoinWith(Tail(comps), s)

\* Variant: replace() with a string pattern, which stops after the first
\* backslash.
toPosixPath_firstOnly(p) ==
  LET hits == {i \in 1..Len(p) : p[i] = BACKSLASH}
  IN [i \in 1..Len(p) |-> IF i \in hits /\ (\A j \in hits : i <= j) THEN SLASH ELSE p[i]]

\* p.replaceAll('\\', '/')
toPosixPath(p) == [i \in 1..Len(p) |-> IF p[i] = BACKSLASH THEN SLASH ELSE p[i]]

\* Concatenation of two strings, each given by its dot-separated segments.
Cat(a, b) == SubSeq(a, 1, Len(a) - 1) \o << a[Len(a)] \o b[1] >> \o Tail(b)

\* String.split('/'): the parts between the '/' tokens; a backslash left in
\* the string stays inside its part.
RECURSIVE SplitSlash(_, _, _)
SplitSlash(p, cur, acc) ==
  IF p = << >> THEN Append(acc, cur)
  ELSE IF Head(p) = SLASH THEN SplitSlash(Tail(p), << "" >>, Append(acc, cur))
  ELSE SplitSlash(Tail(p), Cat(cur, Head(p)), acc)

Split(p) == SplitSlash(p, << "" >>, << >>)

startsWithDot(part) == Len(part) >= 2 /\ part[1] = ""
DOT == << "", "" >>
DOTDOT == << "", "", "" >>

\* Variant: no hidden check.
isHiddenPath_off(relativePath) == FALSE

isHiddenPath(relativePath) ==
  LET parts == Split(relativePath)
  IN \E i \in 1..Len(parts) :
       startsWithDot(parts[i]) /\ parts[i] # DOT /\ parts[i] # DOTDOT

\* --------------------------------------------------- Ignore.ignores(path)
\* One rule against one path: a directory rule needs the trailing '/', an
\* anchored rule covers the whole path, any other rule its last components.
RuleMatches(rule, comps, slash) ==
  LET n == Len(rule.comps)
      m == Len(comps)
  IN /\ rule.dirOnly => slash
     /\ IF rule.anchored THEN m = n ELSE m >= n
     /\ \A i \in 1..n : GlobMatch(rule.comps[i], comps[m - n + i])

\* Variant: the first rule that matches decides.
TestOne_firstWins(rules, comps, slash) ==
  LET hits == {i \in 1..Len(rules) : RuleMatches(rules[i], comps, slash)}
  IN hits # {} /\ ~rules[CHOOSE i \in hits : \A j \in hits : i <= j].negative

\* The last rule that matches decides.
TestOne(rules, comps, slash) ==
  LET hits == {i \in 1..Len(rules) : RuleMatches(rules[i], comps, slash)}
  IN hits # {} /\ ~rules[CHOOSE i \in hits : \A j \in hits : j <= i].negative

\* A path under an ignored directory is ignored, whatever matches below.
Ignores(rules, pathString) ==
  LET slash == pathString[Len(pathString)] = SLASH
      comps == Split(IF slash THEN SubSeq(pathString, 1, Len(pathString) - 1) ELSE pathString)
  IN \/ \E k \in 1..(Len(comps) - 1) : TestOne(rules, SubSeq(comps, 1, k), TRUE)
     \/ TestOne(rules, comps, slash)

\* ------------------------------------------------------------------- state
VARIABLES
  sep,            \* separator token of the host platform (path.sep)
  rootState,      \* "ok", "missing" (existsSync false) or "unreadable"
  tree,           \* entries below the repo root
  repoId,         \* computeRepoPlan's repoId
  optMaxFileSize, \* options.maxFileSizeBytes, 0 when absent
  ignoreContent,  \* computeRepoPlan's ignoreContent, << >> before
  ig,             \* the compiled rule set handed to walkDirectory
  maxFileSize,    \* walkDirectory's maxFileSize
  stack,          \* walkDirectory activations: directory and entries left
  files,          \* walkDirectory's accumulator
  listed,         \* directories readdirSync was called on
  wpc,            \* "idle", "walking", "done", "threw"
  repoResult,     \* RepoPlanResult of computeRepoPlan, << >> before
  thresholds,     \* the PLAN_THRESHOLDS record read by the ladder
  fileCount,      \* ladder input
  totalBytes,     \* ladder input
  ladder,         \* << >> or [warningLevel, warnings] of the ladder input
  manifest,       \* manifest.repos with the state of each repo on disk
  optRepoId,      \* options.repoId, "" when absent
  enabledRepos,   \* computePlan's enabledRepos
  repos,          \* computePlan's repos accumulator
  ppos,           \* number of enabledRepos the loop has been through
  walkLimits,     \* maxFileSize of each computeRepoPlan call of the loop
  ppc,            \* "idle", "loop", "done", "threw"
  summary,        \* PlanSummary, << >> before
  aggFiles,       \* the FileStat list walkDirectory returned to computeRepoPlan
  aggResult,      \* << >> or the statistics computeRepoPlan derives from it
  currentFiles,   \* compareToBaseline's currentFiles
  baseline,       \* << >> (null) or << the Baseline handed to compareToBaseline >>
  diff,           \* << >> or << the BaselineDiff returned >>
  dpc,            \* "start", "saved", "loaded", "compared", "roundtrip"
  baselineFile,   \* .refrepo-baseline.json: [state, text]
  clock,          \* the time new Date() reads: the number of runs started
  cpc,            \* "idle", "plan_done", "mgrep" (runIndex awaits it), "index_done"
  iopts,          \* runIndex's options and jsonMode
  planFiles,      \* << >> (undefined) or << plan.allFiles >> of the run
  ilevel,         \* plan.overallWarningLevel of the run, "none" without a plan
  iresult,        \* << >> or << the CommandResult of runIndex >>
  presult,        \* << >> or << the CommandResult of runPlan >>
  ignoreWritten,  \* the run called writeIgnoreFiles
  mgrepStarted,   \* the run called runMgrepWatch
  changesFile,    \* << >> or << the changes record runPlan wrote last >>
  manifestFile,   \* << >> (no manifest) or << the document of refrepo.yaml >>
  spc,            \* "idle" or "suggest_done"
  sresult,        \* << >> or << the CommandResult of runSuggest >>
  firstWalk,      \* << >> or << the files of the walk before this one >>
  worktree,       \* the included files of each collection, in walk order
  changedAt,      \* the number of runs started when the files last changed
  child,          \* "none", "running" or "closed": the mgrep process
  stdout,         \* runMgrepWatch's stdout: the chunks received
  stderr,         \* runMgrepWatch's stderr: the chunks received
  syncComplete,   \* runMgrepWatch's syncComplete
  killTimers,     \* the 500 ms timers armed so far
  killFired,      \* how many of them have fired
  sigterm,        \* child.kill('SIGTERM') was called
  timeout,        \* runMgrepWatch's timeout: "armed", "fired" or "cleared"
  promise,        \* the returned promise: "pending", "resolved" or "rejected"
  settled,        \* how many times the state of the promise changed
  events,         \* the close, error and timeout events so far, in order
  lastAdd,        \* << >> or << the last addCustomIgnores call and its result >>
  concurrency,    \* runSync's concurrency
  syncRepos,      \* runSync's enabledRepos
  si,             \* the i of runSync's chunk loop
  chunks,         \* runSync's chunks
  chunkNo,        \* the chunk the second loop is at, 0 before
  inFlight,       \* the repos whose syncRepo call has not returned yet
  chunkResults,   \* the results of the returned calls of the chunk, by repo
  results,        \* runSync's results
  syncpc,         \* "idle", "chunking", "running", "awaiting" or "done"
  syncSummary     \* << >> or << runSync's summary >>

walkVars == << sep, rootState, tree, repoId, optMaxFileSize, ignoreContent, ig, maxFileSize,
               stack, files, listed, wpc, repoResult >>
ladderVars == << fileCount, totalBytes, ladder >>
planVars == << manifest, optRepoId, enabledRepos, repos, ppos, walkLimits, ppc, summary >>
aggVars == << aggFiles, aggResult >>
diffVars == << currentFiles, baseline, diff, dpc >>
diskVars == << baselineFile, clock >>
cmdVars == << cpc, iopts, planFiles, ilevel, iresult, presult, ignoreWritten,
             mgrepStarted, changesFile >>
suggestVars == << manifestFile, spc, sresult >>
trackVars == << worktree, changedAt >>
mgrepVars == << child, stdout, stderr, syncComplete, killTimers, killFired, sigterm,
               timeout, promise, settled, events >>
syncVars == << concurrency, syncRepos, si, chunks, chunkNo, inFlight, chunkResults,
              results, syncpc, syncSummary >>
tailVars == << lastAdd, syncVars >>
restVars == << suggestVars, firstWalk, trackVars, mgrepVars, tailVars >>
moreVars == << aggVars, diffVars, diskVars, cmdVars, restVars >>
vars == << walkVars, ladderVars, planVars, thresholds, moreVars >>

\* ------------------------------------------------------------ the disk tree
Entry(comps, kind, size, ok) == [comps |-> comps, kind |-> kind, size |-> size, ok |-> ok]

\* Candidate entries: directories (ok = readdirSync succeeds), files
\* (ok = statSync succeeds) and a broken symlink.
Catalogue ==
  { Entry(<< <<"src">> >>, "dir", 0, TRUE),
    Entry(<< <<"node_modules">> >>, "dir", 0, TRUE),
    Entry(<< <<"", "git">> >>, "dir", 0, TRUE),
    Entry(<< <<"locked">> >>, "dir", 0, FALSE),
    Entry(<< <<"packages">> >>, "dir", 0, TRUE),
    Entry(<< <<"packages">>, <<"convex-helpers">> >>, "dir", 0, TRUE),
    Entry(<< <<"src">>, <<"index", "ts">> >>, "file", 2000, TRUE),
    Entry(<< <<"src">>, <<"app", "log">> >>, "file", 50, TRUE),
    Entry(<< <<"keep", "log">> >>, "file", 60, TRUE),
    Entry(<< <<"", "env">> >>, "file", 10, TRUE),
    Entry(<< <<"", "env", "example">> >>, "file", 10, TRUE),
    Entry(<< <<"node_modules">>, <<"index", "js">> >>, "file", 500, TRUE),
    Entry(<< <<"", "git">>, <<"config">> >>, "file", 20, TRUE),
    Entry(<< <<"packages">>, <<"convex-helpers">>, <<"index", "ts">> >>, "file", 300, TRUE),
    Entry(<< <<"Makefile">> >>, "file", 100, TRUE),
    Entry(<< <<"big", "TS">> >>, "file", 101, TRUE),
    Entry(<< <<"max", "ts">> >>, "file", DEFAULT_MAX_FILE_SIZE_BYTES, TRUE),
    Entry(<< <<"huge", "ts">> >>, "file", DEFAULT_MAX_FILE_SIZE_BYTES + 1, TRUE),
    Entry(<< <<"gone", "ts">> >>, "file", 5, FALSE),
    Entry(<< <<"link">> >>, "symlink", 0, TRUE) }

Parent(comps) == SubSeq(comps, 1, Len(comps) - 1)

\* An entry fits a tree when its path is new and its parent is the root or
\* a directory of the tree.
Fits(t, e) ==
  /\ \A x \in t : x.comps # e.comps
  /\ \/ Len(e.comps) = 1
     \/ \E d \in t : d.kind = "dir" /\ d.comps = Parent(e.comps)

\* The tree of the first worked example of the README.
EXAMPLE1_TREE ==
  { Entry(<< <<"src">> >>, "dir", 0, TRUE),
    Entry(<< <<"src">>, <<"index", "ts">> >>, "file", 2000, TRUE),
    Entry(<< <<"node_modules">> >>, "dir", 0, TRUE),
    Entry(<< <<"node_modules">>, <<"lodash">> >>, "dir", 0, TRUE),
    Entry(<< <<"node_modules">>, <<"lodash">>, <<"index", "js">> >>, "file", 500, TRUE),
    Entry(<< <<"", "env">> >>, "file", 10, TRUE) }

RECURSIVE TreesUpTo(_)
TreesUpTo(k) ==
  IF k = 0 THEN { {} }
  ELSE LET smaller == TreesUpTo(k - 1)
       IN smaller \cup { t \cup {e} : <<t, e>> \in { te \in smaller \X Catalogue : Fits(te[1], te[2]) } }

readdirSync(dir) ==
  { e \in tree : Len(e.comps) = Len(dir) + 1 /\ Parent(e.comps) = dir }

\* ------------------------------------------------------------- aggregation
\* Variant: the comparator the other way round, smallest first.
SortDesc_ascending(seq, key) ==
  LET n == Len(seq)
      rank(i) == Cardinality({j \in 1..n : key[j] < key[i] \/ (key[j] = key[i] /\ j < i)}) + 1
  IN [r \in 1..n |-> seq[CHOOSE i \in 1..n : rank(i) = r]]

\* Array.prototype.sort with (a, b) => key(b) - key(a): stable, descending.
SortDesc(seq, key) ==
  LET n == Len(seq)
      rank(i) == Cardinality({j \in 1..n : key[j] > key[i] \/ (key[j] = key[i] /\ j < i)}) + 1
  IN [r \in 1..n |-> seq[CHOOSE i \in 1..n : rank(i) = r]]

RECURSIVE SumOver(_, _)
SumOver(seq, field) ==
  IF seq = << >> THEN 0 ELSE Head(seq)[field] + SumOver(Tail(seq), field)

toLowerCase(str) ==
  CASE str = ".TS" -> ".ts"
    [] str = ".MD" -> ".md"
    [] OTHER -> str

\* path.extname: the text from the last '.' of the last path part; empty
\* when that part has no '.' or only a leading one.
extname(pathString) ==
  LET parts == Split(pathString)
      base == parts[Len(parts)]
  IN IF Len(base) = 1 \/ (Len(base) = 2 /\ base[1] = "") THEN ""
     ELSE "." \o base[Len(base)]

ExtKey(file) ==
  LET e == toLowerCase(extname(file.path))
  IN IF e = "" THEN "(no ext)" ELSE e

buildExtensionHistogram(fs) ==
  LET n == Len(fs)
      firsts == {i \in 1..n : \A j \in 1..(i - 1) : ExtKey(fs[j]) # ExtKey(fs[i])}
      nth(r) == CHOOSE i \in firsts : Cardinality({j \in firsts : j < i}) = r - 1
      entries == [r \in 1..Cardinality(firsts) |->
                    [ext |-> ExtKey(fs[nth(r)]),
                     count |-> Cardinality({j \in 1..n : ExtKey(fs[j]) = ExtKey(fs[nth(r)])})]]
  IN SortDesc(entries, [r \in 1..Len(entries) |-> entries[r].count])

\* Variant: the thresholds themselves already count as exceeded.
getWarningLevel_atLeast(fc, tb) ==
  IF tb >= thresholds.maxTotalBytesError \/ fc >= thresholds.maxFileCountError
  THEN "red"
  ELSE IF tb >= thresholds.maxTotalBytesWarning \/ fc >= thresholds.maxFileCountWarning
       THEN "yellow"
       ELSE "green"

\* Variant: the byte ladder decides alone once the byte total passes its
\* warning threshold.
getWarningLevel_bytesFirst(fc, tb) ==
  IF tb > thresholds.maxTotalBytesError THEN "red"
  ELSE IF tb > thresholds.maxTotalBytesWarning THEN "yellow"
  ELSE IF fc > thresholds.maxFileCountError THEN "red"
  ELSE IF fc > thresholds.maxFileCountWarning THEN "yellow"
  ELSE "green"

getWarningLevel(fc, tb) ==
  IF tb > thresholds.maxTotalBytesError \/ fc > thresholds.maxFileCountError
  THEN "red"
  ELSE IF tb > thresholds.maxTotalBytesWarning \/ fc > thresholds.maxFileCountWarning
       THEN "yellow"
       ELSE "green"

\* A warning message: what it is about, its tier, the value and the
\* threshold it prints.
Msg(dim, tier, value, threshold) ==
  [dim |-> dim, tier |-> tier, value |-> value, threshold |-> threshold]

\* Variant: the warning-tier test is not an else branch of the error-tier one.
generateWarnings_bothTiers(fc, tb) ==
  (IF tb > thresholds.maxTotalBytesError
   THEN << Msg("bytes", "error", tb, thresholds.maxTotalBytesError) >> ELSE << >>)
  \o
  (IF tb > thresholds.maxTotalBytesWarning
   THEN << Msg("bytes", "warning", tb, thresholds.maxTotalBytesWarning) >> ELSE << >>)
  \o
  (IF fc > thresholds.maxFileCountError
   THEN << Msg("count", "error", fc, thresholds.maxFileCountError) >> ELSE << >>)
  \o
  (IF fc > thresholds.maxFileCountWarning
   THEN << Msg("count", "warning", fc, thresholds.maxFileCountWarning) >> ELSE << >>)

\* Variant: the file count is looked at only when the bytes raise nothing.
generateWarnings_firstOnly(fc, tb) ==
  IF tb > thresholds.maxTotalBytesError
  THEN << Msg("bytes", "error", tb, thresholds.maxTotalBytesError) >>
  ELSE IF tb > thresholds.maxTotalBytesWarning
  THEN << Msg("bytes", "warning", tb, thresholds.maxTotalBytesWarning) >>
  ELSE IF fc > thresholds.maxFileCountError
  THEN << Msg("count", "error", fc, thresholds.maxFileCountError) >>
  ELSE IF fc > thresholds.maxFileCountWarning
  THEN << Msg("count", "warning", fc, thresholds.maxFileCountWarning) >>
  ELSE << >>

generateWarnings(fc, tb) ==
  (IF tb > thresholds.maxTotalBytesError
   THEN << Msg("bytes", "error", tb, thresholds.maxTotalBytesError) >>
   ELSE IF tb > thresholds.maxTotalBytesWarning
        THEN << Msg("bytes", "warning", tb, thresholds.maxTotalBytesWarning) >>
        ELSE << >>)
  \o
  (IF fc > thresholds.maxFileCountError
   THEN << Msg("count", "error", fc, thresholds.maxFileCountError) >>
   ELSE IF fc > thresholds.maxFileCountWarning
        THEN << Msg("count", "warning", fc, thresholds.maxFileCountWarning) >>
        ELSE << >>)

TopN == 10

\* computeRepoPlan after the walk: the statistics of the walked files.
RepoPlanOf(id, localDir, fs) ==
  LET includedFileCount == Len(fs)
      includedTotalBytes == SumOver(fs, "bytes")
      sorted == SortDesc(fs, [i \in 1..Len(fs) |-> fs[i].bytes])
  IN [repoId |-> id,
      includedFileCount |-> includedFileCount,
      includedTotalBytes |-> includedTotalBytes,
      topLargestFiles |-> SubSeq(sorted, 1, IF Len(sorted) < TopN THEN Len(sorted) ELSE TopN),
      extensionHistogram |-> buildExtensionHistogram(fs),
      warningLevel |-> getWarningLevel(includedFileCount, includedTotalBytes),
      warnings |-> generateWarnings(includedFileCount, includedTotalBytes),
      files |-> [i \in 1..Len(fs) |-> << << localDir >>, SLASH >> \o fs[i].path]]

\* ------------------------------------------------- computeRepoPlan, walker
LadderIdle == fileCount = 0 /\ totalBytes = 0 /\ ladder = << >>
PlanIdle ==
  /\ manifest = << >> /\ optRepoId = "" /\ enabledRepos = << >>
  /\ repos = << >> /\ ppos = 0 /\ walkLimits = << >> /\ ppc = "idle" /\ summary = << >>
AggIdle == aggFiles = << >> /\ aggResult = << >>
DiffIdle == currentFiles = << >> /\ baseline = << >> /\ diff = << >> /\ dpc = "start"
DiskIdle == baselineFile = [state |-> "absent", text |-> << >>] /\ clock = 0
NoOptions == [json |-> FALSE, dryRun |-> FALSE, force |-> FALSE]
CmdIdle ==
  /\ cpc = "idle" /\ iopts = NoOptions /\ planFiles = << >> /\ ilevel = "none"
  /\ iresult = << >> /\ presult = << >>
  /\ ignoreWritten = FALSE /\ mgrepStarted = FALSE /\ changesFile = << >>
SuggestIdle == manifestFile = << >> /\ spc = "idle" /\ sresult = << >>
TrackIdle == worktree = << >> /\ changedAt = 0
MgrepIdle ==
  /\ child = "none" /\ stdout = << >> /\ stderr = << >> /\ syncComplete = FALSE
  /\ killTimers = 0 /\ killFired = 0 /\ sigterm = FALSE /\ timeout = "cleared"
  /\ promise = "pending" /\ settled = 0 /\ events = << >>
SyncIdle ==
  /\ concurrency = [nan |-> FALSE, n |-> 0] /\ syncRepos = << >>
  /\ si = [nan |-> FALSE, n |-> 0] /\ chunks = << >> /\ chunkNo = 0 /\ inFlight = {}
  /\ chunkResults = << >> /\ results = << >> /\ syncpc = "idle" /\ syncSummary = << >>
TailIdle == lastAdd = << >> /\ SyncIdle
RestIdle == SuggestIdle /\ firstWalk = << >> /\ TrackIdle /\ MgrepIdle /\ TailIdle
MoreIdle == AggIdle /\ DiffIdle /\ DiskIdle /\ CmdIdle /\ RestIdle
WalkIdle ==
  /\ sep = SLASH /\ rootState = "missing" /\ tree = {} /\ repoId = "unknown-repo"
  /\ optMaxFileSize = 0 /\ ignoreContent = << >> /\ ig = << >> /\ maxFileSize = 0
  /\ stack = << >>
  /\ files = << >> /\ listed = {} /\ wpc = "idle" /\ repoResult = << >>

OptMaxFileSizes == {0, 100}

InitWalk ==
  /\ sep \in {SLASH, BACKSLASH}
  /\ rootState \in {"ok", "missing", "unreadable"}
  /\ tree \in TreesUpTo(MaxTreeEntries) \cup {EXAMPLE1_TREE}
  /\ rootState # "ok" => tree = {}
  /\ repoId \in RepoIds
  /\ optMaxFileSize \in OptMaxFileSizes
  \* a known id without rules of its own walks like an unknown one
  /\ repoId = "tanstack-start-dashboard" => sep = SLASH /\ optMaxFileSize = 0
  /\ ignoreContent = << >>
  /\ ig \in {IgnoreAdd(buildIgnoreContent(repoId))}
            \cup (IF repoId = "unknown-repo" THEN {NEGATION_RULES} ELSE {})
  /\ maxFileSize = 0
  /\ stack = << >> /\ files = << >> /\ listed = {} /\ wpc = "idle" /\ repoResult = << >>
  /\ thresholds = PLAN_THRESHOLDS
  /\ LadderIdle /\ PlanIdle /\ MoreIdle

relativePathOf(e) == toPosixPath(JoinWith(e.comps, sep))

Top == stack[Len(stack)]
Rest(e) == [stack EXCEPT ![Len(stack)].todo = @ \ {e}]

\* computeRepoPlan up to the first readdirSync of walkDirectory.
computeRepoPlan_begin ==
  /\ wpc = "idle"
  /\ maxFileSize' = IF optMaxFileSize # 0 THEN optMaxFileSize ELSE DEFAULT_MAX_FILE_SIZE_BYTES
  /\ ignoreContent' = buildIgnoreContent(repoId)
  /\ CASE rootState = "missing" ->
            /\ wpc' = "done"
            /\ repoResult' = RepoPlanOf(repoId, repoId, << >>)
            /\ UNCHANGED << stack, listed >>
       [] rootState = "unreadable" ->
            /\ wpc' = "threw"
            /\ listed' = { << >> }
            /\ UNCHANGED << stack, repoResult >>
       [] OTHER ->
            /\ wpc' = "walking"
            /\ listed' = { << >> }
            /\ stack' = << [dir |-> << >>, todo |-> readdirSync(<< >>)] >>
            /\ UNCHANGED repoResult
  /\ UNCHANGED << sep, rootState, tree, repoId, optMaxFileSize, ig, files >>
  /\ UNCHANGED << ladderVars, planVars, thresholds, moreVars >>

WalkFrame == << sep, rootState, tree, repoId, optMaxFileSize, ignoreContent, ig,
               maxFileSize >>

\* One iteration of the for loop skips the entry.
SkipEntry(e) ==
  /\ stack' = Rest(e)
  /\ UNCHANGED << files, listed, wpc, repoResult, WalkFrame >>
  /\ UNCHANGED << ladderVars, planVars, thresholds, moreVars >>

walk_skipHidden ==
  /\ wpc = "walking"
  /\ \E e \in Top.todo :
       /\ isHiddenPath(relativePathOf(e))
       /\ SkipEntry(e)

walk_skipIgnored ==
  /\ wpc = "walking"
  /\ \E e \in Top.todo :
       /\ ~isHiddenPath(relativePathOf(e))
       /\ Ignores(ig, relativePathOf(e))
       /\ SkipEntry(e)

Passes(e) == ~isHiddenPath(relativePathOf(e)) /\ ~Ignores(ig, relativePathOf(e))

walk_skipIgnoredDir ==
  /\ wpc = "walking"
  /\ \E e \in Top.todo :
       /\ Passes(e) /\ e.kind = "dir"
       /\ Ignores(ig, Append(relativePathOf(e), SLASH))
       /\ SkipEntry(e)

\* The recursive call: readdirSync of the subdirectory throws or lists it.
walk_descend ==
  /\ wpc = "walking"
  /\ \E e \in Top.todo :
       /\ Passes(e) /\ e.kind = "dir"
       /\ ~Ignores(ig, Append(relativePathOf(e), SLASH))
       /\ listed' = listed \cup {e.comps}
       /\ IF e.ok
          THEN /\ stack' = Append(Rest(e), [dir |-> e.comps, todo |-> readdirSync(e.comps)])
               /\ UNCHANGED wpc
          ELSE /\ wpc' = "threw"
               /\ UNCHANGED stack
  /\ UNCHANGED << files, repoResult, WalkFrame >>
  /\ UNCHANGED << ladderVars, planVars, thresholds, moreVars >>

\* Variant: a file of exactly the limit is dropped.
FitsLimit_strict(size, limit) == size < limit

\* stats.size <= maxFileSize
FitsLimit(size, limit) == size <= limit

walk_pushFile ==
  /\ wpc = "walking"
  /\ \E e \in Top.todo :
       /\ Passes(e) /\ e.kind = "file" /\ e.ok
       /\ FitsLimit(e.size, maxFileSize)
       /\ files' = Append(files, [path |-> relativePathOf(e), bytes |-> e.size])
       /\ stack' = Rest(e)
  /\ UNCHANGED << listed, wpc, repoResult, WalkFrame >>
  /\ UNCHANGED << ladderVars, planVars, thresholds, moreVars >>

walk_skipLarge ==
  /\ wpc = "walking"
  /\ \E e \in Top.todo :
       /\ Passes(e) /\ e.kind = "file" /\ e.ok
       /\ ~FitsLimit(e.size, maxFileSize)
       /\ SkipEntry(e)

walk_skipStatError ==
  /\ wpc = "walking"
  /\ \E e \in Top.todo :
       /\ Passes(e) /\ e.kind = "file" /\ ~e.ok
       /\ SkipEntry(e)

\* Neither isDirectory() nor isFile(): a symbolic link.
walk_skipOther ==
  /\ wpc = "walking"
  /\ \E e \in Top.todo :
       /\ Passes(e) /\ e.kind \notin {"dir", "file"}
       /\ SkipEntry(e)

\* The loop of an inner walkDirectory call is over.
walk_return ==
  /\ wpc = "walking"
  /\ Len(stack) > 1 /\ Top.todo = {}
  /\ stack' = SubSeq(stack, 1, Len(stack) - 1)
  /\ UNCHANGED << files, listed, wpc, repoResult, WalkFrame >>
  /\ UNCHANGED << ladderVars, planVars, thresholds, moreVars >>

\* The outermost walkDirectory returns and computeRepoPlan builds its result.
computeRepoPlan_finish ==
  /\ wpc = "walking"
  /\ Len(stack) = 1 /\ Top.todo = {}
  /\ stack' = << >>
  /\ wpc' = "done"
  /\ repoResult' = RepoPlanOf(repoId, repoId, files)
  /\ UNCHANGED << files, listed, WalkFrame >>
  /\ UNCHANGED << ladderVars, planVars, thresholds, moreVars >>

NextWalk ==
  \/ computeRepoPlan_begin
  \/ walk_skipHidden
  \/ walk_skipIgnored
  \/ walk_skipIgnoredDir
  \/ walk_descend
  \/ walk_pushFile
  \/ walk_skipLarge
  \/ walk_skipStatError
  \/ walk_skipOther
  \/ walk_return
  \/ computeRepoPlan_finish

SpecWalk == InitWalk /\ [][NextWalk]_vars

\* -------------------------------------------------------------- the ladder
\* Values on both sides of every threshold, and those of worked example 3.
CountInputs(t) ==
  {0, 3, t.maxFileCountWarning - 1, t.maxFileCountWarning, t.maxFileCountWarning + 1,
   t.maxFileCountError - 1, t.maxFileCountError, t.maxFileCountError + 1}
ByteInputs(t) ==
  {0, 6000, t.maxTotalBytesWarning - 1, t.maxTotalBytesWarning, t.maxTotalBytesWarning + 1,
   t.maxTotalBytesError - 1, t.maxTotalBytesError, t.maxTotalBytesError + 1}

InitLadder ==
  /\ thresholds \in {PLAN_THRESHOLDS, EXAMPLE3_THRESHOLDS}
  /\ fileCount \in CountInputs(thresholds)
  /\ totalBytes \in ByteInputs(thresholds)
  /\ ladder = << >>
  /\ WalkIdle /\ PlanIdle /\ MoreIdle

\* computeRepoPlan's two calls on the counts of a walk.
classify ==
  /\ ladder = << >>
  /\ ladder' = << [warningLevel |-> getWarningLevel(fileCount, totalBytes),
                   warnings |-> generateWarnings(fileCount, totalBytes)] >>
  /\ UNCHANGED << fileCount, totalBytes, thresholds, walkVars, planVars, moreVars >>

NextLadder == classify

SpecLadder == InitLadder /\ [][NextLadder]_vars

\* ------------------------------------------------------------- computePlan
\* A repo of the manifest with what its walk yields: disk is "missing"
\* (root absent), "unreadable" (the walk throws) or "ok" with the number
\* and total size of the files the walk returns.
PlanRepoIds == {"a", "b"}
Mega == 1024 * 1024
WalkOutcomes ==
  { [count |-> 0, bytes |-> 0],
    [count |-> 2000, bytes |-> 8 * Mega],
    [count |-> 2501, bytes |-> 100],
    [count |-> 10000, bytes |-> 50 * Mega],
    [count |-> 3, bytes |-> 50 * Mega + 1] }

NoMgrep == [maxFileSizeBytes |-> 0]
RepoConfigs ==
  { [id |-> i, localDir |-> i, enabled |-> en, mgrep |-> NoMgrep,
     disk |-> "missing", count |-> 0, bytes |-> 0]
      : i \in PlanRepoIds, en \in BOOLEAN }
  \cup
  { [id |-> i, localDir |-> i, enabled |-> en, mgrep |-> NoMgrep,
     disk |-> "unreadable", count |-> 0, bytes |-> 0]
      : i \in PlanRepoIds, en \in BOOLEAN }
  \cup
  { [id |-> i, localDir |-> i, enabled |-> en, mgrep |-> NoMgrep,
     disk |-> "ok", count |-> o.count, bytes |-> o.bytes]
      : i \in PlanRepoIds, en \in BOOLEAN, o \in WalkOutcomes }

InitPlan ==
  /\ manifest \in UNION { [1..n -> RepoConfigs] : n \in 0..MaxRepos }
  /\ optRepoId \in {""} \cup PlanRepoIds
  /\ enabledRepos = << >> /\ repos = << >> /\ ppos = 0 /\ walkLimits = << >>
  /\ ppc = "idle" /\ summary = << >>
  /\ thresholds = PLAN_THRESHOLDS
  /\ WalkIdle /\ LadderIdle /\ MoreIdle

getEnabledRepos(m) == SelectSeq(m, LAMBDA r : r.enabled)

computePlan_begin ==
  /\ ppc = "idle"
  /\ LET enabled == getEnabledRepos(manifest)
         selected == IF optRepoId # ""
                     THEN SelectSeq(enabled, LAMBDA r : r.id = optRepoId)
                     ELSE enabled
     IN /\ enabledRepos' = selected
        /\ ppc' = IF optRepoId # "" /\ Len(selected) = 0 THEN "threw" ELSE "loop"
  /\ UNCHANGED << manifest, optRepoId, repos, ppos, walkLimits, summary, thresholds, walkVars,
                  ladderVars, moreVars >>

NotCloned(repo) ==
  [repoId |-> repo.id, localDir |-> repo.localDir, cloned |-> FALSE,
   includedFileCount |-> 0, includedTotalBytes |-> 0,
   warningLevel |-> "green",
   warnings |-> << Msg("repo", "not cloned", 0, 0) >>]

\* computeRepoPlan on a repo whose walk returned repo.count files of
\* repo.bytes bytes in total.
RepoPlanOfCounts(repo) ==
  [repoId |-> repo.id, localDir |-> repo.localDir, cloned |-> TRUE,
   includedFileCount |-> repo.count, includedTotalBytes |-> repo.bytes,
   warningLevel |-> getWarningLevel(repo.count, repo.bytes),
   warnings |-> generateWarnings(repo.count, repo.bytes)]

\* Variant: a repo that is not cloned is left out of the results.
MissingRepoResults_omitted(repo) == << >>

\* What the loop pushes for a repo whose root path does not exist.
MissingRepoResults(repo) == << NotCloned(repo) >>

\* computePlan's options as runPlan and runIndex pass them: repoId or
\* nothing, no maxFileSizeBytes (0).
PlanOptions == [repoId |-> optRepoId, maxFileSizeBytes |-> 0]

\* Variant: the manifest entry's mgrep.maxFileSizeBytes comes first.
maxFileSizeOf_override(options, pos) ==
  [pos |-> pos,
   maxFileSize |->
     IF enabledRepos[pos].mgrep.maxFileSizeBytes # 0
     THEN enabledRepos[pos].mgrep.maxFileSizeBytes
     ELSE IF options.maxFileSizeBytes # 0 THEN options.maxFileSizeBytes
          ELSE DEFAULT_MAX_FILE_SIZE_BYTES]

\* computeRepoPlan(repo.id, repo.name, repo.localDir, repoPath, options):
\* const maxFileSize = options.maxFileSizeBytes || DEFAULT_MAX_FILE_SIZE_BYTES
maxFileSizeOf(options, pos) ==
  [pos |-> pos,
   maxFileSize |->
     IF options.maxFileSizeBytes # 0 THEN options.maxFileSizeBytes
     ELSE DEFAULT_MAX_FILE_SIZE_BYTES]

\* One iteration of the loop over enabledRepos.
computePlan_repo ==
  /\ ppc = "loop"
  /\ ppos < Len(enabledRepos)
  /\ ppos' = ppos + 1
  /\ LET repo == enabledRepos[ppos + 1]
     IN CASE repo.disk = "missing" ->
               /\ repos' = repos \o MissingRepoResults(repo)
               /\ UNCHANGED << ppc, walkLimits >>
          [] repo.disk = "unreadable" ->
               /\ ppc' = "threw"
               /\ walkLimits' = Append(walkLimits, maxFileSizeOf(PlanOptions, ppos + 1))
               /\ UNCHANGED repos
          [] OTHER ->
               /\ repos' = Append(repos, RepoPlanOfCounts(repo))
               /\ walkLimits' = Append(walkLimits, maxFileSizeOf(PlanOptions, ppos + 1))
               /\ UNCHANGED ppc
  /\ UNCHANGED << manifest, optRepoId, enabledRepos, summary, thresholds, walkVars, ladderVars, moreVars >>

Some(seq, level) == \E i \in 1..Len(seq) : seq[i].warningLevel = level

\* Variant: the level of the summed totals.
OverallLevel_ofTotals(rs) ==
  getWarningLevel(SumOver(rs, "includedFileCount"), SumOver(rs, "includedTotalBytes"))

\* Overall warning level (worst of all repos)
OverallLevel(rs) ==
  IF Some(rs, "red") THEN "red"
  ELSE IF Some(rs, "yellow") THEN "yellow" ELSE "green"

computePlan_finish ==
  /\ ppc = "loop"
  /\ ppos = Len(enabledRepos)
  /\ ppc' = "done"
  /\ summary' =
       << [repos |-> repos,
           totals |-> [includedFileCount |-> SumOver(repos, "includedFileCount"),
                       includedTotalBytes |-> SumOver(repos, "includedTotalBytes"),
                       repoCount |-> Len(repos)],
           overallWarningLevel |-> OverallLevel(repos)] >>
  /\ UNCHANGED << manifest, optRepoId, enabledRepos, repos, ppos, walkLimits, thresholds, walkVars,
                  ladderVars, moreVars >>

NextPlan ==
  \/ computePlan_begin
  \/ computePlan_repo
  \/ computePlan_finish

SpecPlan == InitPlan /\ [][NextPlan]_vars

\* Manifests whose entries may carry mgrep.maxFileSizeBytes, below and
\* above the default limit.
MaxFileSizeOverrides == {0, 100, 4 * Mega}
OverrideRepoConfigs ==
  { [id |-> i, localDir |-> i, enabled |-> en, mgrep |-> [maxFileSizeBytes |-> m],
     disk |-> d, count |-> IF d = "ok" THEN 2000 ELSE 0,
     bytes |-> IF d = "ok" THEN 8 * Mega ELSE 0]
      : i \in PlanRepoIds, en \in BOOLEAN, m \in MaxFileSizeOverrides,
        d \in {"ok", "missing"} }

InitPlanOverrides ==
  /\ manifest \in UNION { [1..n -> OverrideRepoConfigs] : n \in 0..MaxRepos }
  /\ optRepoId \in {""} \cup PlanRepoIds
  /\ enabledRepos = << >> /\ repos = << >> /\ ppos = 0 /\ walkLimits = << >>
  /\ ppc = "idle" /\ summary = << >>
  /\ thresholds = PLAN_THRESHOLDS
  /\ WalkIdle /\ LadderIdle /\ MoreIdle

SpecPlanOverrides == InitPlanOverrides /\ [][NextPlan]_vars

\* ------------------------------------- computeRepoPlan, the statistics
\* Files a directory of the walked tree can hold: two spellings of one
\* extension, a second extension and a name without one; two of one size.
AggFileStats ==
  { [name |-> <<"index", "ts">>, bytes |-> 2000],
    [name |-> <<"big", "TS">>, bytes |-> 101],
    [name |-> <<"Makefile">>, bytes |-> 101],
    [name |-> <<"README", "md">>, bytes |-> 50] }

\* The directories of a repo holding the same files each.
AggDirs(maxPerDir) ==
  { p \in UNION { [1..n -> AggFileStats] : n \in 0..maxPerDir } :
      \A i, j \in 1..Len(p) : p[i] = p[j] => i = j }

RECURSIVE WalkOfDirs(_, _)
WalkOfDirs(pattern, k) ==
  IF k = 0 THEN << >>
  ELSE WalkOfDirs(pattern, k - 1) \o
       [i \in 1..Len(pattern) |->
          [path |-> << << ToString(k) >>, SLASH, pattern[i].name >>,
           bytes |-> pattern[i].bytes]]

InitAgg ==
  /\ \E pattern \in AggDirs(MaxAggPerDir), k \in 1..MaxAggDirs :
       aggFiles = WalkOfDirs(pattern, k)
  /\ aggResult = << >>
  /\ thresholds = PLAN_THRESHOLDS
  /\ WalkIdle /\ LadderIdle /\ PlanIdle /\ DiffIdle /\ DiskIdle /\ CmdIdle /\ RestIdle

\* computeRepoPlan from "Calculate stats" to its return.
computeRepoPlan_stats ==
  /\ aggResult = << >>
  /\ aggResult' = << RepoPlanOf("repo", "repo", aggFiles) >>
  /\ UNCHANGED << aggFiles, thresholds, walkVars, ladderVars, planVars, diffVars, diskVars, cmdVars, restVars >>

NextAgg == computeRepoPlan_stats

SpecAgg == InitAgg /\ [][NextAgg]_vars

\* ---------------------------------------------------------------- baseline
\* Path strings of the baseline, listed in ascending order of their UTF-16
\* code units, the order of Array.prototype.sort without a comparator.
PathNames == << "a.ts", "b.ts", "c.ts", "d.ts" >>
CodeUnitRank(p) == CHOOSE i \in 1..Len(PathNames) : PathNames[i] = p
Range(seq) == {seq[i] : i \in 1..Len(seq)}

\* files.sort(): stable, ascending.
Sort(seq) ==
  LET n == Len(seq)
      key(i) == CodeUnitRank(seq[i])
      rank(i) == Cardinality({j \in 1..n : key(j) < key(i) \/ (key(j) = key(i) /\ j < i)}) + 1
  IN [r \in 1..n |-> seq[CHOOSE i \in 1..n : rank(i) = r]]

ParseNumber(tok) == CHOOSE n \in 0..(MaxPaths + 2) : ToString(n) = tok
toISOString(t) == "t" \o ToString(t)

\* Variant: the last path is lost on the way to the disk.
JSONstringify_dropLast(b) ==
  << "{", "timestamp", b.timestamp, "fileCount", ToString(b.fileCount), "files", "[" >>
  \o SubSeq(b.files, 1, Len(b.files) - 1) \o << "]", "}" >>

\* JSON.stringify of a Baseline, as the tokens of the text.
JSONstringify(b) ==
  << "{", "timestamp", b.timestamp, "fileCount", ToString(b.fileCount), "files", "[" >>
  \o b.files \o << "]", "}" >>

\* The members of a JSON object; ok is FALSE on a syntax error.
RECURSIVE ParseMembers(_)
ParseMembers(toks) ==
  IF toks = << >> THEN [ok |-> TRUE, value |-> << >>]
  ELSE IF Len(toks) >= 2 /\ toks[1] = "timestamp"
  THEN LET rest == ParseMembers(SubSeq(toks, 3, Len(toks)))
       IN [ok |-> rest.ok, value |-> ("timestamp" :> toks[2]) @@ rest.value]
  ELSE IF Len(toks) >= 2 /\ toks[1] = "fileCount"
  THEN LET rest == ParseMembers(SubSeq(toks, 3, Len(toks)))
       IN [ok |-> rest.ok, value |-> ("fileCount" :> ParseNumber(toks[2])) @@ rest.value]
  ELSE IF Len(toks) >= 3 /\ toks[1] = "files" /\ toks[2] = "["
          /\ \E i \in 3..Len(toks) : toks[i] = "]"
  THEN LET close == CHOOSE i \in 3..Len(toks) :
                      toks[i] = "]" /\ \A j \in 3..(i - 1) : toks[j] # "]"
           rest == ParseMembers(SubSeq(toks, close + 1, Len(toks)))
       IN [ok |-> rest.ok, value |-> ("files" :> SubSeq(toks, 3, close - 1)) @@ rest.value]
  ELSE [ok |-> FALSE, value |-> << >>]

\* JSON.parse: throws (ok FALSE), or returns null or an object.
JSONparse(text) ==
  IF text = << "null" >> THEN [ok |-> TRUE, null |-> TRUE, value |-> << >>]
  ELSE IF Len(text) >= 2 /\ text[1] = "{" /\ text[Len(text)] = "}"
  THEN LET m == ParseMembers(SubSeq(text, 2, Len(text) - 1))
       IN [ok |-> m.ok, null |-> FALSE, value |-> m.value]
  ELSE [ok |-> FALSE, null |-> FALSE, value |-> << >>]

\* loadBaseline: << >> for null, else << the parsed value >>.
loadBaseline ==
  IF baselineFile.state = "absent" THEN << >>
  ELSE IF baselineFile.state = "unreadable" THEN << >>
  ELSE LET parsed == JSONparse(baselineFile.text)
       IN IF ~parsed.ok \/ parsed.null THEN << >> ELSE << parsed.value >>

\* saveBaseline: the file it writes at time t.
saveBaseline(fileList, t) ==
  [state |-> "file",
   text |-> JSONstringify([timestamp |-> toISOString(t),
                           fileCount |-> Len(fileList),
                           files |-> Sort(fileList)])]

\* Variant: only what is new is reported.
compareToBaseline_newOnly(current, b) ==
  LET baselineSet == Range(b.files)
  IN [newFiles |-> Sort(SelectSeq(current, LAMBDA f : f \notin baselineSet)),
      removedFiles |-> << >>]

compareToBaseline(current, b) ==
  LET currentSet == Range(current)
      baselineSet == Range(b.files)
      newFiles == SelectSeq(current, LAMBDA f : f \notin baselineSet)
      removedFiles == SelectSeq(b.files, LAMBDA f : f \notin currentSet)
  IN [newFiles |-> Sort(newFiles), removedFiles |-> Sort(removedFiles)]

\* Lists of at most n paths, and those that saveBaseline writes for the
\* files of a plan: sorted, each path once.
PathLists(n) == UNION { [1..k -> Range(PathNames)] : k \in 0..n }
SortedPathLists(n) ==
  { SelectSeq(PathNames, LAMBDA p : p \in S) :
      S \in { T \in SUBSET Range(PathNames) : Cardinality(T) <= n } }

InitDiff ==
  /\ currentFiles \in PathLists(MaxPaths)
  /\ \E fileList \in SortedPathLists(MaxPaths) :
       baseline = << [timestamp |-> toISOString(0),
                      fileCount |-> Len(fileList),
                      files |-> fileList] >>
  /\ diff = << >> /\ dpc = "start"
  /\ DiskIdle
  /\ thresholds = PLAN_THRESHOLDS
  /\ WalkIdle /\ LadderIdle /\ PlanIdle /\ AggIdle /\ CmdIdle /\ RestIdle

\* compareToBaseline(currentFiles, baseline) on a baseline that was given
\* or loaded.
compare ==
  /\ dpc \in {"start", "loaded"}
  /\ baseline # << >>
  /\ diff' = << compareToBaseline(currentFiles, baseline[1]) >>
  /\ dpc' = IF dpc = "start" THEN "compared" ELSE "roundtrip"
  /\ UNCHANGED << currentFiles, baseline, diskVars >>
  /\ UNCHANGED << thresholds, walkVars, ladderVars, planVars, aggVars, cmdVars, restVars >>

\* saveBaseline(currentFiles): files.sort() sorts the caller's array too.
save ==
  /\ dpc = "start"
  /\ baselineFile' = saveBaseline(currentFiles, clock)
  /\ currentFiles' = Sort(currentFiles)
  /\ clock' = clock + 1
  /\ dpc' = "saved"
  /\ UNCHANGED << baseline, diff >>
  /\ UNCHANGED << thresholds, walkVars, ladderVars, planVars, aggVars, cmdVars, restVars >>

\* baseline = loadBaseline()
load ==
  /\ dpc = "saved"
  /\ baseline' = loadBaseline
  /\ dpc' = "loaded"
  /\ UNCHANGED << currentFiles, diff, diskVars >>
  /\ UNCHANGED << thresholds, walkVars, ladderVars, planVars, aggVars, cmdVars, restVars >>

NextDiff ==
  \/ compare
  \/ save
  \/ load

SpecDiff == InitDiff /\ [][NextDiff]_vars

\* ------------------------------------------------- refrepo plan and index
\* What computePlan gives a run: it throws, or returns a summary of which
\* the runs read overallWarningLevel and allFiles (in walk order).
PlanOutcomes ==
  { [threw |-> TRUE, level |-> "none", allFiles |-> << >>] }
  \cup { [threw |-> FALSE, level |-> "green", allFiles |-> << >>] }
  \cup { [threw |-> FALSE, level |-> l, allFiles |-> fileList] :
           l \in {"green", "yellow", "red"},
           fileList \in { << "b.ts", "a.ts" >>, << "a.ts", "c.ts" >> } }

\* The baseline file as a run can find it: absent, not readable, cut off
\* in the middle, holding other JSON, or written by an earlier index run.
BaselineFiles ==
  { [state |-> "absent", text |-> << >>],
    [state |-> "unreadable", text |-> << >>],
    [state |-> "file", text |-> << "{" >>],
    [state |-> "file", text |-> << "null" >>],
    [state |-> "file", text |-> << "{", "}" >>],
    saveBaseline(<< "a.ts", "b.ts" >>, 0) }

InitCmd ==
  /\ baselineFile \in BaselineFiles
  /\ clock = 0
  /\ CmdIdle
  /\ thresholds = PLAN_THRESHOLDS
  /\ WalkIdle /\ LadderIdle /\ PlanIdle /\ AggIdle /\ DiffIdle /\ RestIdle

Fail(message) == << [success |-> FALSE, error |-> message] >>
Success == << [success |-> TRUE, error |-> ""] >>

ChangesRecord(baselineDate, newFiles, removedFiles) ==
  << [timestamp |-> toISOString(clock + 1),
      baselineDate |-> baselineDate,
      newFiles |-> newFiles,
      removedFiles |-> removedFiles,
      hasChanges |-> (Len(newFiles) > 0 \/ Len(removedFiles) > 0)] >>

\* runPlan with a manifest that loads.
PlanRun(out) ==
  /\ cpc = "idle" /\ clock < MaxRuns
  /\ clock' = clock + 1
  /\ cpc' = "plan_done"
  /\ LET loaded == loadBaseline
       IN /\ planFiles' = IF out.threw THEN << >> ELSE << out.allFiles >>
          /\ ilevel' = out.level
          /\ IF out.threw
             THEN presult' = Fail("computePlan") /\ UNCHANGED changesFile
             ELSE IF loaded # << >>
             THEN IF "files" \in DOMAIN loaded[1]
                  THEN LET d == compareToBaseline(out.allFiles, loaded[1])
                       IN /\ changesFile' = ChangesRecord(loaded[1].timestamp,
                                                          d.newFiles, d.removedFiles)
                          /\ presult' = Success
                  ELSE presult' = Fail("TypeError") /\ UNCHANGED changesFile
             ELSE /\ changesFile' = ChangesRecord("none", out.allFiles, << >>)
                  /\ presult' = Success
  /\ UNCHANGED << iopts, iresult, ignoreWritten, mgrepStarted, baselineFile >>
  /\ UNCHANGED << thresholds, walkVars, ladderVars, planVars, aggVars, diffVars, restVars >>

runPlan == \E out \in PlanOutcomes : PlanRun(out)

\* Variant: the threshold check never blocks.
Blocked_never(force, level) == FALSE

\* if (!options.force) { if (plan.overallWarningLevel === 'red') return ...
Blocked(force, level) == ~force /\ level = "red"

\* Variant: no catch around computePlan, a plan that throws ends the run.
Returns_uncaught(threw, force, level) == threw \/ Blocked(force, level)

\* The early return sits in the try block, after computePlan has returned;
\* the catch only warns.
Returns(threw, force, level) == ~threw /\ Blocked(force, level)

\* runIndex up to the await of runMgrepWatch, or to its early return.
IndexStart(json, dryRun, force, out) ==
  /\ cpc = "idle" /\ clock < MaxRuns
  /\ clock' = clock + 1
  /\ iopts' = [json |-> json, dryRun |-> dryRun, force |-> force]
  /\ planFiles' = IF out.threw THEN << >> ELSE << out.allFiles >>
  /\ ilevel' = out.level
  /\ IF Returns(out.threw, force, out.level)
     THEN /\ cpc' = "index_done"
          /\ iresult' = Fail("Index blocked due to RED warning level")
          /\ UNCHANGED << ignoreWritten, mgrepStarted >>
     ELSE /\ cpc' = "mgrep"
          /\ ignoreWritten' = TRUE
          /\ mgrepStarted' = TRUE
          /\ UNCHANGED iresult
  /\ UNCHANGED << presult, changesFile, baselineFile >>
  /\ UNCHANGED << thresholds, walkVars, ladderVars, planVars, aggVars, diffVars, restVars >>

runIndex_start ==
  \E json \in BOOLEAN, dryRun \in BOOLEAN, force \in BOOLEAN, out \in PlanOutcomes :
    IndexStart(json, dryRun, force, out)

\* Variant: a dry run saves the baseline too.
SavesBaseline_alsoDryRun(jsonMode, dryRun, pf) ==
  ~jsonMode /\ pf # << >> /\ Len(pf[1]) > 0

\* The conditions around saveBaseline(planFiles).
SavesBaseline(jsonMode, dryRun, pf) ==
  ~jsonMode /\ ~dryRun /\ pf # << >> /\ Len(pf[1]) > 0

\* runMgrepWatch resolved: runIndex reports and returns success.
runIndex_resolved ==
  /\ cpc = "mgrep"
  /\ cpc' = "index_done"
  /\ iresult' = Success
  /\ IF SavesBaseline(iopts.json, iopts.dryRun, planFiles)
     THEN /\ baselineFile' = saveBaseline(planFiles[1], clock)
          /\ planFiles' = << Sort(planFiles[1]) >>
     ELSE UNCHANGED << baselineFile, planFiles >>
  /\ UNCHANGED << clock, iopts, ilevel, presult, ignoreWritten, mgrepStarted, changesFile >>
  /\ UNCHANGED << thresholds, walkVars, ladderVars, planVars, aggVars, diffVars, restVars >>

\* runMgrepWatch rejected: mgrep failed, timed out or could not start.
runIndex_rejected ==
  /\ cpc = "mgrep"
  /\ cpc' = "index_done"
  /\ \E message \in {"mgrep exited with code", "mgrep timed out", "Failed to start mgrep"} :
       iresult' = Fail(message)
  /\ UNCHANGED << clock, baselineFile, iopts, planFiles, ilevel, presult, ignoreWritten,
                  mgrepStarted, changesFile >>
  /\ UNCHANGED << thresholds, walkVars, ladderVars, planVars, aggVars, diffVars, restVars >>

\* The process of the run ends; the files stay.
exit ==
  /\ cpc \in {"plan_done", "index_done"}
  /\ cpc' = "idle"
  /\ iopts' = NoOptions /\ planFiles' = << >> /\ ilevel' = "none"
  /\ iresult' = << >> /\ presult' = << >>
  /\ ignoreWritten' = FALSE /\ mgrepStarted' = FALSE
  /\ UNCHANGED << clock, baselineFile, changesFile >>
  /\ UNCHANGED << thresholds, walkVars, ladderVars, planVars, aggVars, diffVars, restVars >>

NextCmd ==
  \/ runPlan
  \/ runIndex_start
  \/ runIndex_resolved
  \/ runIndex_rejected
  \/ exit

SpecCmd == InitCmd /\ [][NextCmd]_vars

\* -------------------------------------- plan and index on the same files
\* Two enabled collections. A path name stands for a file of the collection
\* named by its first letter or the letter after it: a.ts and c.ts are
\* files of "a", b.ts and d.ts files of "b".
TrackRepoIds == << "a", "b" >>
Worktrees ==
  { [a |-> fa, b |-> fb] :
      fa \in { << >>, << "a.ts" >>, << "c.ts", "a.ts" >> },
      fb \in { << >>, << "b.ts" >> } }

\* computePlan(manifest, { repoId }): it throws (a walk fails, or no
\* enabled repo has the id), or returns the files of the selected
\* collections in manifest order.
computePlanOnDisk(optRepo) ==
  { [threw |-> TRUE, level |-> "none", allFiles |-> << >>] }
  \cup IF optRepo = "" THEN
         { [threw |-> FALSE, level |-> l, allFiles |-> worktree.a \o worktree.b] :
             l \in {"green", "red"} }
       ELSE IF \E i \in 1..Len(TrackRepoIds) : TrackRepoIds[i] = optRepo THEN
         { [threw |-> FALSE, level |-> l, allFiles |-> worktree[optRepo]] :
             l \in {"green", "red"} }
       ELSE {}

\* refrepo plan [--repo id]
runPlan_onDisk ==
  \E optRepo \in {"", "a", "b", "zz"} : \E out \in computePlanOnDisk(optRepo) : PlanRun(out)

\* refrepo index: computePlan(manifest, {}), whatever the options.
runIndex_onDisk ==
  \E json \in BOOLEAN, dryRun \in BOOLEAN, force \in BOOLEAN :
    \E out \in computePlanOnDisk("") : IndexStart(json, dryRun, force, out)

\* Between two runs the files of the collections change (a pull, an edit).
filesChange ==
  /\ cpc = "idle"
  /\ \E w \in Worktrees : w # worktree /\ worktree' = w
  /\ changedAt' = clock
  /\ UNCHANGED << thresholds, walkVars, ladderVars, planVars, aggVars, diffVars, diskVars,
                  cmdVars, suggestVars, firstWalk, mgrepVars, tailVars >>

InitTrack ==
  /\ baselineFile = [state |-> "absent", text |-> << >>]
  /\ clock = 0
  /\ CmdIdle
  /\ worktree \in Worktrees
  /\ changedAt = 0
  /\ thresholds = PLAN_THRESHOLDS
  /\ WalkIdle /\ LadderIdle /\ PlanIdle /\ AggIdle /\ DiffIdle
  /\ SuggestIdle /\ firstWalk = << >> /\ MgrepIdle /\ TailIdle

NextTrack ==
  \/ runPlan_onDisk
  \/ runIndex_onDisk
  \/ runIndex_resolved
  \/ runIndex_rejected
  \/ exit
  \/ filesChange

SpecTrack == InitTrack /\ [][NextTrack]_vars

\* ---------------------------------------------------------- runMgrepWatch
\* Chunks of output: the message whole, its two halves, a dry-run summary.
Chunks == {"Initial sync complete", "Initial sync", " complete", "found 3 files"}

\* String.includes('Initial sync complete') on the chunks put together.
IncludesSyncComplete(s) ==
  \/ \E i \in 1..Len(s) : s[i] = "Initial sync complete"
  \/ \E i \in 1..(Len(s) - 1) : s[i] = "Initial sync" /\ s[i + 1] = " complete"

\* includes('found') && includes('files')
IncludesFoundFiles(s) == \E i \in 1..Len(s) : s[i] = "found 3 files"

\* Variant: a settled promise is settled again, the last call wins.
Settle_lastWins(state) ==
  /\ promise' = state
  /\ settled' = IF promise # state THEN settled + 1 ELSE settled

\* resolve() / reject(): the first call settles the promise, later calls
\* do nothing.
Settle(state) ==
  /\ promise' = IF promise = "pending" THEN state ELSE promise
  /\ settled' = IF promise = "pending" THEN settled + 1 ELSE settled

OtherThanMgrep ==
  << thresholds, walkVars, ladderVars, planVars, aggVars, diffVars, diskVars, cmdVars,
     suggestVars, firstWalk, trackVars, tailVars >>

\* The statements of the Promise executor: spawn, the handlers, the timer.
InitMgrep ==
  /\ child = "running" /\ stdout = << >> /\ stderr = << >> /\ syncComplete = FALSE
  /\ killTimers = 0 /\ killFired = 0 /\ sigterm = FALSE /\ timeout = "armed"
  /\ promise = "pending" /\ settled = 0 /\ events = << >>
  /\ thresholds = PLAN_THRESHOLDS
  /\ WalkIdle /\ LadderIdle /\ PlanIdle /\ AggIdle /\ DiffIdle /\ DiskIdle /\ CmdIdle
  /\ SuggestIdle /\ firstWalk = << >> /\ TrackIdle /\ TailIdle

\* The tail of both data handlers.
DetectSync(accumulated) ==
  IF ~syncComplete /\ IncludesSyncComplete(accumulated)
  THEN syncComplete' = TRUE /\ killTimers' = killTimers + 1
  ELSE UNCHANGED << syncComplete, killTimers >>

stdout_data ==
  /\ child = "running" /\ Len(stdout) + Len(stderr) < MaxChunks
  /\ \E text \in Chunks :
       /\ stdout' = Append(stdout, text)
       /\ DetectSync(Append(stdout, text))
  /\ UNCHANGED << child, stderr, killFired, sigterm, timeout, promise, settled, events >>
  /\ UNCHANGED OtherThanMgrep

stderr_data ==
  /\ child = "running" /\ Len(stdout) + Len(stderr) < MaxChunks
  /\ \E text \in Chunks :
       /\ stderr' = Append(stderr, text)
       /\ DetectSync(Append(stderr, text))
  /\ UNCHANGED << child, stdout, killFired, sigterm, timeout, promise, settled, events >>
  /\ UNCHANGED OtherThanMgrep

\* setTimeout(() => child.kill('SIGTERM'), 500)
kill_timer ==
  /\ killFired < killTimers
  /\ killFired' = killFired + 1
  /\ sigterm' = TRUE
  /\ UNCHANGED << child, stdout, stderr, syncComplete, killTimers, timeout, promise, settled,
                  events >>
  /\ UNCHANGED OtherThanMgrep

\* The timeout timer fires: SIGTERM, then reject.
timeout_timer ==
  /\ timeout = "armed"
  /\ timeout' = "fired"
  /\ sigterm' = TRUE
  /\ Settle("rejected")
  /\ events' = Append(events, [ev |-> "timeout", code |-> "null", sync |-> syncComplete])
  /\ UNCHANGED << child, stdout, stderr, syncComplete, killTimers, killFired >>
  /\ UNCHANGED OtherThanMgrep

\* child.on('close'): code is the exit code, "null" after a signal.
child_close ==
  /\ child = "running"
  /\ child' = "closed"
  /\ timeout' = IF timeout = "armed" THEN "cleared" ELSE timeout
  /\ \E code \in {"0", "1", "null"} :
       /\ events' = Append(events, [ev |-> "close", code |-> code, sync |-> syncComplete])
       /\ IF syncComplete THEN Settle("resolved")
          ELSE IF code # "0"
          THEN IF IncludesFoundFiles(stdout \o stderr) THEN Settle("resolved")
               ELSE Settle("rejected")
          ELSE Settle("resolved")
  /\ UNCHANGED << stdout, stderr, syncComplete, killTimers, killFired, sigterm >>
  /\ UNCHANGED OtherThanMgrep

\* child.on('error'): the process could not be spawned or signalled.
child_error ==
  /\ child = "running"
  /\ \A i \in 1..Len(events) : events[i].ev # "error"
  /\ timeout' = IF timeout = "armed" THEN "cleared" ELSE timeout
  /\ Settle("rejected")
  /\ events' = Append(events, [ev |-> "error", code |-> "null", sync |-> syncComplete])
  /\ UNCHANGED << child, stdout, stderr, syncComplete, killTimers, killFired, sigterm >>
  /\ UNCHANGED OtherThanMgrep

NextMgrep ==
  \/ stdout_data
  \/ stderr_data
  \/ kill_timer
  \/ timeout_timer
  \/ child_close
  \/ child_error

SpecMgrep == InitMgrep /\ [][NextMgrep]_vars

\* ------------------------------------------------ manifest custom ignores
\* The keys of ManifestSchema; z.object keeps these and drops every other.
ManifestSchemaKeys == {"version", "defaultRoot", "defaultStore", "repos"}

BaseDocument == [k \in ManifestSchemaKeys |-> "set"]

\* A document with a customIgnores key.
WithIgnores(doc, list) ==
  [k \in DOMAIN doc \cup {"customIgnores"} |-> IF k = "customIgnores" THEN list ELSE doc[k]]

\* Patterns 'IGNORE:' lines carry: a path below the collection root.
CustomPatterns ==
  << Pat(FALSE, << <<"unknown-repo">>, <<"Makefile">> >>, FALSE),
     Pat(FALSE, << <<"unknown-repo">>, <<"*", "TS">> >>, FALSE),
     Pat(FALSE, << <<"unknown-repo">>, <<"docs">> >>, TRUE) >>

RECURSIVE ListsUpTo(_, _)
ListsUpTo(S, n) ==
  IF n = 0 THEN { << >> }
  ELSE LET shorter == ListsUpTo(S, n - 1)
       IN shorter \cup { Append(l, x) : <<l, x>> \in shorter \X S }

PatternLists == ListsUpTo(Range(CustomPatterns), MaxPatterns)

\* ManifestSchema.parse(data): the keys of the schema, nothing else.
validateManifest(data) == [k \in DOMAIN data \cap ManifestSchemaKeys |-> data[k]]

\* parseYaml, then validateManifest.
loadManifest(file) == validateManifest(file[1])

\* addCustomIgnores: the result and the manifest file after the call.
\* existingSet is built before the loop and never updated in it.
addCustomIgnores(file, patterns) ==
  IF file = << >>
  THEN [success |-> FALSE, added |-> << >>, file |-> file]
  ELSE LET loaded == loadManifest(file)
           existing == IF "customIgnores" \in DOMAIN loaded THEN loaded["customIgnores"] ELSE << >>
           existingSet == Range(existing)
           added == SelectSeq(patterns, LAMBDA p : p \notin existingSet)
       IN [success |-> TRUE, added |-> added,
           file |-> IF Len(added) > 0 THEN << WithIgnores(loaded, existing \o added) >> ELSE file]

SuggestResult(success, applied, patterns, patternsAdded) ==
  << [success |-> success, applied |-> applied, patterns |-> patterns,
      patternsAdded |-> patternsAdded] >>

\* runSuggest. claudeFails: callClaude rejects; patterns: parsePatterns of
\* the response.
runSuggest ==
  /\ spc = "idle" /\ wpc = "idle"
  /\ spc' = "suggest_done"
  /\ \E applyMode \in BOOLEAN, claudeFails \in BOOLEAN, patterns \in PatternLists :
       IF changesFile = << >>
       THEN sresult' = SuggestResult(FALSE, FALSE, << >>, 0) /\ UNCHANGED manifestFile
       ELSE IF ~changesFile[1].hasChanges \/ Len(changesFile[1].newFiles) = 0
       THEN sresult' = SuggestResult(TRUE, FALSE, << >>, 0) /\ UNCHANGED manifestFile
       ELSE IF claudeFails
       THEN sresult' = SuggestResult(FALSE, FALSE, << >>, 0) /\ UNCHANGED manifestFile
       ELSE IF ~applyMode
       THEN sresult' = SuggestResult(TRUE, FALSE, << >>, 0) /\ UNCHANGED manifestFile
       ELSE IF Len(patterns) = 0
       THEN sresult' = SuggestResult(TRUE, TRUE, << >>, 0) /\ UNCHANGED manifestFile
       ELSE LET addResult == addCustomIgnores(manifestFile, patterns)
            IN /\ manifestFile' = addResult.file
               /\ sresult' = IF addResult.success
                             THEN SuggestResult(TRUE, TRUE, patterns, Len(addResult.added))
                             ELSE SuggestResult(FALSE, FALSE, << >>, 0)
  /\ UNCHANGED << thresholds, walkVars, ladderVars, planVars, aggVars, diffVars, diskVars, cmdVars >>
  /\ UNCHANGED << firstWalk, trackVars, mgrepVars, tailVars >>

ManifestFiles ==
  { << >>, << BaseDocument >>, << WithIgnores(BaseDocument, << CustomPatterns[1] >>) >> }

\* refrepo suggest, then the walk of refrepo plan over one collection.
InitSuggest ==
  /\ sep = SLASH
  /\ rootState \in {"ok", "missing", "unreadable"}
  /\ tree \in TreesUpTo(MaxSuggestEntries)
  /\ rootState # "ok" => tree = {}
  /\ repoId = "unknown-repo"
  /\ optMaxFileSize = 0
  /\ ignoreContent = << >>
  /\ ig = IgnoreAdd(buildIgnoreContent(repoId))
  /\ maxFileSize = 0
  /\ stack = << >> /\ files = << >> /\ listed = {} /\ wpc = "idle" /\ repoResult = << >>
  /\ thresholds = PLAN_THRESHOLDS
  /\ manifestFile \in ManifestFiles
  /\ spc = "idle" /\ sresult = << >> /\ firstWalk = << >> /\ TrackIdle /\ MgrepIdle
  /\ TailIdle
  /\ clock = 0 /\ baselineFile = [state |-> "absent", text |-> << >>]
  /\ changesFile \in { << >>, ChangesRecord("none", << >>, << >>),
                       ChangesRecord("none", << "a.ts" >>, << >>) }
  /\ cpc = "idle" /\ iopts = NoOptions /\ planFiles = << >> /\ ilevel = "none"
  /\ iresult = << >> /\ presult = << >>
  /\ ignoreWritten = FALSE /\ mgrepStarted = FALSE
  /\ LadderIdle /\ PlanIdle /\ AggIdle /\ DiffIdle

NextSuggest ==
  \/ runSuggest
  \/ NextWalk

SpecSuggest == InitSuggest /\ [][NextSuggest]_vars

\* ------------------------------------------- two walks of the same tree
\* The next run of the command walks the collection again: the walker
\* starts over on the same tree with the same rules.
computeRepoPlan_again ==
  /\ wpc = "done" /\ firstWalk = << >>
  /\ firstWalk' = << files >>
  /\ wpc' = "idle"
  /\ stack' = << >> /\ files' = << >> /\ listed' = {} /\ repoResult' = << >>
  /\ UNCHANGED WalkFrame
  /\ UNCHANGED << thresholds, ladderVars, planVars, aggVars, diffVars, diskVars, cmdVars,
                  suggestVars, trackVars, mgrepVars, tailVars >>

InitTwoWalks ==
  /\ InitWalk
  /\ sep = SLASH /\ repoId = "unknown-repo" /\ optMaxFileSize = 0
  /\ ig = IgnoreAdd(buildIgnoreContent(repoId))

NextTwoWalks ==
  \/ NextWalk
  \/ computeRepoPlan_again

SpecTwoWalks == InitTwoWalks /\ [][NextTwoWalks]_vars

\* ------------------------------------------------- addCustomIgnores alone
\* A call of addCustomIgnores on the manifest file as it is.
addCustomIgnores_call ==
  /\ \E patterns \in PatternLists :
       LET r == addCustomIgnores(manifestFile, patterns)
       IN /\ lastAdd' = << [before |-> manifestFile, patterns |-> patterns,
                            success |-> r.success, added |-> r.added] >>
          /\ manifestFile' = r.file
  /\ UNCHANGED << spc, sresult, firstWalk, trackVars, mgrepVars, syncVars >>
  /\ UNCHANGED << thresholds, walkVars, ladderVars, planVars, aggVars, diffVars, diskVars, cmdVars >>

InitIgnores ==
  /\ manifestFile \in ManifestFiles
  /\ spc = "idle" /\ sresult = << >> /\ firstWalk = << >> /\ TrackIdle /\ MgrepIdle
  /\ TailIdle
  /\ thresholds = PLAN_THRESHOLDS
  /\ WalkIdle /\ LadderIdle /\ PlanIdle /\ AggIdle /\ DiffIdle /\ DiskIdle /\ CmdIdle

NextIgnores == addCustomIgnores_call

SpecIgnores == InitIgnores /\ [][NextIgnores]_vars

\* ---------------------------------------------------------------- runSync
\* A JavaScript number: an integer or NaN.
Num(n) == [nan |-> FALSE, n |-> n]
NaN == [nan |-> TRUE, n |-> 0]
Less(a, b) == ~a.nan /\ ~b.nan /\ a.n < b.n
Add(a, b) == IF a.nan \/ b.nan THEN NaN ELSE Num(a.n + b.n)

Digits == << "0", "1", "2", "3", "4", "5", "6", "7", "8", "9" >>
IsDigit(c) == \E i \in 1..Len(Digits) : Digits[i] = c
DigitValue(c) == (CHOOSE i \in 1..Len(Digits) : Digits[i] = c) - 1

RECURSIVE LeadingDigits(_, _)
LeadingDigits(s, acc) ==
  IF s = << >> \/ ~IsDigit(Head(s)) THEN acc
  ELSE LeadingDigits(Tail(s), 10 * acc + DigitValue(Head(s)))

\* parseInt(s, 10) of a string given by its characters: an optional sign,
\* then the digits up to the first other character; NaN without a digit.
parseInt(s) ==
  LET signed == s # << >> /\ Head(s) \in {"-", "+"}
      body == IF signed THEN Tail(s) ELSE s
  IN IF body = << >> \/ ~IsDigit(Head(body)) THEN NaN
     ELSE IF signed /\ Head(s) = "-" THEN Num(0 - LeadingDigits(body, 0))
     ELSE Num(LeadingDigits(body, 0))

\* Array.prototype.slice(start, end): NaN counts as 0, a negative index
\* counts from the end, both are clamped to the array.
RelativeIndex(x, len) ==
  IF x.nan THEN 0
  ELSE IF x.n < 0 THEN (IF len + x.n < 0 THEN 0 ELSE len + x.n)
  ELSE IF x.n > len THEN len ELSE x.n

slice(list, start, end) ==
  SubSeq(list, RelativeIndex(start, Len(list)) + 1, RelativeIndex(end, Len(list)))

\* What --concurrency can be given: nothing or the empty string, numbers,
\* a number with a suffix, a word.
ConcurrencyOptions ==
  { << >>, << "1" >>, << "2" >>, << "0" >>, << "-", "1" >>, << "2", "x" >>,
    << "a", "b", "c" >> }

SyncRepoIds == << "a", "b", "c" >>
SyncActions == {"cloned", "pulled", "skipped", "failed"}

OtherThanSync ==
  << thresholds, walkVars, ladderVars, planVars, aggVars, diffVars, diskVars, cmdVars,
     suggestVars, firstWalk, trackVars, mgrepVars, lastAdd >>

\* runSync after the manifest is loaded, at the head of the chunk loop.
InitSync ==
  /\ \E option \in ConcurrencyOptions :
       concurrency = parseInt(IF option = << >> THEN << "4" >> ELSE option)
  /\ \E n \in 0..MaxSyncRepos : syncRepos = SubSeq(SyncRepoIds, 1, n)
  /\ si = Num(0) /\ chunks = << >> /\ chunkNo = 0 /\ inFlight = {}
  /\ chunkResults = << >> /\ results = << >> /\ syncpc = "chunking" /\ syncSummary = << >>
  /\ lastAdd = << >>
  /\ thresholds = PLAN_THRESHOLDS
  /\ WalkIdle /\ LadderIdle /\ PlanIdle /\ AggIdle /\ DiffIdle /\ DiskIdle /\ CmdIdle
  /\ SuggestIdle /\ firstWalk = << >> /\ TrackIdle /\ MgrepIdle

\* One iteration of `for (let i = 0; i < enabledRepos.length; i += concurrency)`.
\* A loop that does not end is followed MaxExtraPushes iterations beyond
\* the number of repos.
sync_pushChunk ==
  /\ syncpc = "chunking"
  /\ Less(si, Num(Len(syncRepos)))
  /\ Len(chunks) < Len(syncRepos) + MaxExtraPushes
  /\ chunks' = Append(chunks, slice(syncRepos, si, Add(si, concurrency)))
  /\ si' = Add(si, concurrency)
  /\ UNCHANGED << concurrency, syncRepos, chunkNo, inFlight, chunkResults, results, syncpc,
                  syncSummary >>
  /\ UNCHANGED OtherThanSync

\* The loop condition is false.
sync_chunked ==
  /\ syncpc = "chunking"
  /\ ~Less(si, Num(Len(syncRepos)))
  /\ syncpc' = "running"
  /\ UNCHANGED << concurrency, syncRepos, si, chunks, chunkNo, inFlight, chunkResults,
                  results, syncSummary >>
  /\ UNCHANGED OtherThanSync

\* chunk.map((repo) => syncRepo(...)): every call of the chunk is started.
sync_startChunk ==
  /\ syncpc = "running"
  /\ chunkNo < Len(chunks)
  /\ chunkNo' = chunkNo + 1
  /\ inFlight' = Range(chunks[chunkNo + 1])
  /\ chunkResults' = << >>
  /\ syncpc' = "awaiting"
  /\ UNCHANGED << concurrency, syncRepos, si, chunks, results, syncSummary >>
  /\ UNCHANGED OtherThanSync

\* A syncRepo call returns its result.
syncRepo_returns ==
  /\ syncpc = "awaiting"
  /\ \E id \in inFlight, action \in SyncActions :
       /\ inFlight' = inFlight \ {id}
       /\ chunkResults' = Append(chunkResults, [id |-> id, action |-> action])
  /\ UNCHANGED << concurrency, syncRepos, si, chunks, chunkNo, results, syncpc, syncSummary >>
  /\ UNCHANGED OtherThanSync

\* Promise.all resolves with the results in the order of the chunk.
sync_chunkDone ==
  /\ syncpc = "awaiting"
  /\ inFlight = {}
  /\ LET chunk == chunks[chunkNo]
         resultOf(id) == CHOOSE i \in 1..Len(chunkResults) : chunkResults[i].id = id
     IN results' = results \o [k \in 1..Len(chunk) |-> chunkResults[resultOf(chunk[k])]]
  /\ chunkResults' = << >>
  /\ syncpc' = "running"
  /\ UNCHANGED << concurrency, syncRepos, si, chunks, chunkNo, inFlight, syncSummary >>
  /\ UNCHANGED OtherThanSync

CountOf(action) == Cardinality({i \in 1..Len(results) : results[i].action = action})

\* The summary and the return.
sync_finish ==
  /\ syncpc = "running"
  /\ chunkNo = Len(chunks)
  /\ syncSummary' = << [cloned |-> CountOf("cloned"), pulled |-> CountOf("pulled"),
                        skipped |-> CountOf("skipped"), failed |-> CountOf("failed")] >>
  /\ syncpc' = "done"
  /\ UNCHANGED << concurrency, syncRepos, si, chunks, chunkNo, inFlight, chunkResults,
                  results >>
  /\ UNCHANGED OtherThanSync

NextSync ==
  \/ sync_pushChunk
  \/ sync_chunked
  \/ sync_startChunk
  \/ syncRepo_returns
  \/ sync_chunkDone
  \/ sync_finish

SpecSync == InitSync /\ [][NextSync]_vars

\* ================================================================== claims
\* Vocabulary of the claims about the walk, stated on the components of
\* the entries of the tree.
HiddenName(name) == Len(name) >= 2 /\ name[1] = ""
HasHiddenComponent(comps) == \E i \in 1..Len(comps) : HiddenName(comps[i])
PosixString(comps) == JoinWith(comps, SLASH)
WalkedPaths == {files[i].path : i \in 1..Len(files)}
SizeLimit == IF optMaxFileSize # 0 THEN optMaxFileSize ELSE 1024 * 1024

\* Rule k excludes the path and a later negated rule is the last to match it.
ReIncluded(comps) ==
  \E k, j \in 1..Len(ig) :
    /\ k < j
    /\ ~ig[k].negative /\ RuleMatches(ig[k], comps, FALSE)
    /\ ig[j].negative /\ RuleMatches(ig[j], comps, FALSE)
    /\ \A m \in (j + 1)..Len(ig) : ~RuleMatches(ig[m], comps, FALSE)

\* The rule set excludes the entry itself or one of the directories above it.
RulesExclude(e) ==
  \/ \E k \in 1..(Len(e.comps) - 1) :
       TestOne(ig, SubSeq(e.comps, 1, k), FALSE) \/ TestOne(ig, SubSeq(e.comps, 1, k), TRUE)
  \/ TestOne(ig, e.comps, FALSE)
  \/ (e.kind = "dir" /\ TestOne(ig, e.comps, TRUE))

\* A regular file the walk can read, within the size limit.
PlainFile(e) == e.kind = "file" /\ e.ok /\ e.size <= SizeLimit

\* C1 as stated: a path excluded by a rule and re-included by a later
\* negated rule is in the walk result, '.env.example' under the global
\* rules included.
C1_ReincludedAlwaysWalked ==
  wpc = "done" =>
    \A e \in tree :
      (PlainFile(e) /\ ReIncluded(e.comps)) => PosixString(e.comps) \in WalkedPaths

\* C1 amended: a file re-included by a later negated rule is in the walk
\* result when no component of its path is hidden and no directory above it
\* is excluded; one with a hidden component, such as '.env.example', is not.
C1_ReincludedVisibleWalked ==
  wpc = "done" =>
    \A e \in tree :
      (PlainFile(e) /\ ReIncluded(e.comps)) =>
        IF HasHiddenComponent(e.comps)
        THEN PosixString(e.comps) \notin WalkedPaths
        ELSE (\A k \in 1..(Len(e.comps) - 1) : ~TestOne(ig, SubSeq(e.comps, 1, k), TRUE))
               => PosixString(e.comps) \in WalkedPaths

C1_Witness ==
  /\ wpc = "done"
  /\ \E e \in tree :
       /\ PlainFile(e) /\ ReIncluded(e.comps) /\ ~HasHiddenComponent(e.comps)
       /\ PosixString(e.comps) \in WalkedPaths
  /\ \E e \in tree : e.kind = "file" /\ PosixString(e.comps) \notin WalkedPaths

\* C2: an entry with a path component starting with '.' is never in the
\* walk result and no directory with such a component is ever listed or
\* iterated, whatever the rule set says, a negation included.
C2_HiddenNeverWalked ==
  /\ \A i \in 1..Len(files) : ~HasHiddenComponent(Split(files[i].path))
  /\ \A e \in tree : HasHiddenComponent(e.comps) => PosixString(e.comps) \notin WalkedPaths
  /\ \A d \in listed : ~HasHiddenComponent(d)
  /\ \A i \in 1..Len(stack) : ~HasHiddenComponent(stack[i].dir)

C2_Witness ==
  /\ wpc = "done"
  /\ \E e \in tree :
       /\ HasHiddenComponent(e.comps) /\ PlainFile(e)
       /\ ReIncluded(e.comps) /\ ~TestOne(ig, e.comps, FALSE)
  /\ \E e \in tree : e.kind = "dir" /\ HasHiddenComponent(e.comps)
  /\ Len(files) > 0

\* C3: among the readable files that pass the hidden and pattern rules,
\* exactly those not larger than the limit are in the walk result, and the
\* counts, byte total, histogram, largest files and path list of the plan
\* are those of the walk result alone.
Eligible(e) ==
  /\ e.kind = "file" /\ e.ok
  /\ ~HasHiddenComponent(e.comps)
  /\ ~RulesExclude(e)
  /\ \A k \in 1..(Len(e.comps) - 1) :
       \E d \in tree : d.kind = "dir" /\ d.comps = SubSeq(e.comps, 1, k)

KeptEntries == {e \in tree : Eligible(e) /\ e.size <= SizeLimit}

RECURSIVE SumSizes(_)
SumSizes(es) ==
  IF es = {} THEN 0
  ELSE LET e == CHOOSE x \in es : TRUE IN e.size + SumSizes(es \ {e})

C3_SizeLimit ==
  wpc = "done" =>
    /\ \A e \in tree :
         Eligible(e) => (PosixString(e.comps) \in WalkedPaths <=> e.size <= SizeLimit)
    /\ WalkedPaths = {PosixString(e.comps) : e \in KeptEntries}
    /\ Len(files) = Cardinality(KeptEntries)
    /\ repoResult.includedFileCount = Cardinality(KeptEntries)
    /\ repoResult.includedTotalBytes = SumSizes(KeptEntries)
    /\ SumOver(repoResult.extensionHistogram, "count") = Cardinality(KeptEntries)
    /\ \A i \in 1..Len(repoResult.topLargestFiles) :
         \E e \in KeptEntries :
           repoResult.topLargestFiles[i] = [path |-> PosixString(e.comps), bytes |-> e.size]
    /\ {repoResult.files[i] : i \in 1..Len(repoResult.files)}
         = {<< << repoId >>, SLASH >> \o PosixString(e.comps) : e \in KeptEntries}

C3_Witness ==
  /\ wpc = "done"
  /\ \E e \in tree : Eligible(e) /\ e.size = SizeLimit /\ PosixString(e.comps) \in WalkedPaths
  /\ \E e \in tree : Eligible(e) /\ e.size = SizeLimit + 1 /\ PosixString(e.comps) \notin WalkedPaths

\* C4: an unreadable entry below a readable root is skipped and the walk
\* completes: the walk never ends by throwing.
C4_WalkNeverThrows == rootState = "ok" => wpc # "threw"

\* Vocabulary of the claims about the ladder.
Classified == ladder # << >>
Level == ladder[1].warningLevel
Warnings == ladder[1].warnings
Default == thresholds = PLAN_THRESHOLDS
About(dim) == {i \in 1..Len(Warnings) : Warnings[i].dim = dim}

C6_ReadmeTable ==
  (Classified /\ Default) =>
    /\ Level = "green" => (fileCount < 2500 /\ totalBytes < 15 * 1024 * 1024)
    /\ (fileCount >= 10000 \/ totalBytes >= 50 * 1024 * 1024) => Level = "red"

\* C7: one warning for each of bytes and file count that exceeds its warning
\* threshold, of the error tier when the error threshold is exceeded too;
\* so no warning exactly when green, an error-tier one exactly when red.
C7_Warnings ==
  Classified =>
    /\ Len(Warnings) <= 2
    /\ Cardinality(About("bytes")) = (IF totalBytes > thresholds.maxTotalBytesWarning THEN 1 ELSE 0)
    /\ Cardinality(About("count")) = (IF fileCount > thresholds.maxFileCountWarning THEN 1 ELSE 0)
    /\ Cardinality(About("bytes")) + Cardinality(About("count")) = Len(Warnings)
    /\ \A i \in About("bytes") :
         /\ Warnings[i].value = totalBytes
         /\ IF totalBytes > thresholds.maxTotalBytesError
            THEN Warnings[i].tier = "error" /\ Warnings[i].threshold = thresholds.maxTotalBytesError
            ELSE Warnings[i].tier = "warning" /\ Warnings[i].threshold = thresholds.maxTotalBytesWarning
    /\ \A i \in About("count") :
         /\ Warnings[i].value = fileCount
         /\ IF fileCount > thresholds.maxFileCountError
            THEN Warnings[i].tier = "error" /\ Warnings[i].threshold = thresholds.maxFileCountError
            ELSE Warnings[i].tier = "warning" /\ Warnings[i].threshold = thresholds.maxFileCountWarning
    /\ Warnings = << >> <=> Level = "green"
    /\ (\E i \in 1..Len(Warnings) : Warnings[i].tier = "error") <=> Level = "red"

C7_Witness ==
  /\ Classified /\ Default
  /\ Len(Warnings) = 2
  /\ Warnings[1].tier = "error" /\ Warnings[2].tier = "warning"

\* C8 as stated: in worked example 3 the level is red and there is exactly
\* one warning, the one about the bytes.
Example3 ==
  /\ Classified /\ thresholds = EXAMPLE3_THRESHOLDS
  /\ totalBytes = 6000 /\ fileCount = 3

Planned == ppc = "done"
Results == summary[1].repos
Rank(level) == CASE level = "green" -> 0 [] level = "yellow" -> 1 [] level = "red" -> 2
Selected ==
  {i \in 1..Len(manifest) :
     manifest[i].enabled /\ (optRepoId = "" \/ manifest[i].id = optRepoId)}
\* The position in the manifest of the k-th selected repo.
SelectedAt(k) == CHOOSE i \in Selected : Cardinality({j \in Selected : j < i}) = k - 1

\* C9: the overall level is the worst level among the repo results, green
\* for no result; the summed totals have no part in it.
C9_Overall ==
  Planned =>
    /\ \A i \in 1..Len(Results) :
         Rank(Results[i].warningLevel) <= Rank(summary[1].overallWarningLevel)
    /\ \/ \E i \in 1..Len(Results) :
            Results[i].warningLevel = summary[1].overallWarningLevel
       \/ (summary[1].overallWarningLevel = "green" /\ Len(Results) = 0)

C9_Witness ==
  /\ Planned
  /\ summary[1].overallWarningLevel = "green"
  /\ summary[1].totals.includedFileCount > 2500
  /\ summary[1].totals.includedTotalBytes > 15 * 1024 * 1024

\* C10: the summary has one result for each selected enabled repo, in
\* manifest order; a repo whose root does not exist has 0 files, 0 bytes,
\* level green and the 'not cloned' warning; repoCount is the number of
\* selected enabled repos and the totals are the sums over the results.
C10_OnePerRepo ==
  Planned =>
    /\ Len(Results) = Cardinality(Selected)
    /\ summary[1].totals.repoCount = Cardinality(Selected)
    /\ \A k \in 1..Len(Results) :
         LET repo == manifest[SelectedAt(k)]
         IN /\ Results[k].repoId = repo.id
            /\ repo.disk = "missing" =>
                 /\ Results[k].includedFileCount = 0
                 /\ Results[k].includedTotalBytes = 0
                 /\ Results[k].warningLevel = "green"
                 /\ Len(Results[k].warnings) = 1
                 /\ Results[k].warnings[1].tier = "not cloned"
            /\ repo.disk = "ok" =>
                 /\ Results[k].includedFileCount = repo.count
                 /\ Results[k].includedTotalBytes = repo.bytes
    /\ summary[1].totals.includedFileCount =
         SumOver([k \in 1..Cardinality(Selected) |-> manifest[SelectedAt(k)]], "count")
    /\ summary[1].totals.includedTotalBytes =
         SumOver([k \in 1..Cardinality(Selected) |-> manifest[SelectedAt(k)]], "bytes")

C10_Witness ==
  /\ Planned
  /\ Len(Results) = 2
  /\ \E k \in 1..2 : manifest[SelectedAt(k)].disk = "missing"
  /\ summary[1].totals.includedFileCount > 0

\* ---------------------------------------------------------------------- C11
RECURSIVE SumCounts(_)
SumCounts(hist) ==
  IF hist = << >> THEN 0 ELSE Head(hist).count + SumCounts(Tail(hist))
Occurrences(seq, x) == Cardinality({i \in 1..Len(seq) : seq[i] = x})
Min(a, b) == IF a < b THEN a ELSE b

\* C11: for every included-file list the per-repo result has
\* includedFileCount equal to the sum of the histogram counts, the histogram
\* in non-increasing count order, and topLargestFiles of exactly
\* min(10, includedFileCount) entries in non-increasing size order, each
\* taken from the included list (no more often than it occurs there).
C11_Statistics ==
  aggResult # << >> =>
    LET r == aggResult[1]
        hist == r.extensionHistogram
        top == r.topLargestFiles
    IN /\ r.includedFileCount = Len(aggFiles)
       /\ r.includedFileCount = SumCounts(hist)
       /\ \A i \in 1..(Len(hist) - 1) : hist[i].count >= hist[i + 1].count
       /\ Len(top) = Min(10, r.includedFileCount)
       /\ \A i \in 1..(Len(top) - 1) : top[i].bytes >= top[i + 1].bytes
       /\ \A i \in 1..Len(top) :
            Occurrences(top, top[i]) <= Occurrences(aggFiles, top[i])
       /\ \A i \in 1..Len(top) : \A j \in 1..Len(aggFiles) :
            Occurrences(top, aggFiles[j]) < Occurrences(aggFiles, aggFiles[j])
              => top[Len(top)].bytes >= aggFiles[j].bytes

\* More than ten files of several sizes and three extensions were aggregated.
C11_Witness ==
  /\ aggResult # << >>
  /\ Len(aggFiles) > 10
  /\ Len(aggResult[1].extensionHistogram) = 3
  /\ \E i, j \in 1..Len(aggFiles) : aggFiles[i].bytes # aggFiles[j].bytes

\* ---------------------------------------------------------------------- C12
Compared == dpc \in {"compared", "roundtrip"}
NewFiles == diff[1].newFiles
RemovedFiles == diff[1].removedFiles

\* C12: newFiles holds exactly the paths of currentFiles that are not in
\* baseline.files, removedFiles exactly the paths of baseline.files that
\* are not in currentFiles; a path of both lists is in neither result.
C12_SetDifference ==
  Compared =>
    /\ Range(NewFiles) = Range(currentFiles) \ Range(baseline[1].files)
    /\ Range(RemovedFiles) = Range(baseline[1].files) \ Range(currentFiles)

\* Worked example 4: baseline [a, b, c], current [a, b, d].
C12_Witness ==
  /\ dpc = "compared"
  /\ baseline[1].files = << "a.ts", "b.ts", "c.ts" >>
  /\ currentFiles = << "a.ts", "b.ts", "d.ts" >>
  /\ NewFiles = << "d.ts" >>
  /\ RemovedFiles = << "c.ts" >>

\* ---------------------------------------------------------------------- C13
StrictlyAscending(seq) ==
  \A i \in 1..(Len(seq) - 1) :
    \E k \in 1..Len(PathNames) : \E m \in (k + 1)..Len(PathNames) :
      seq[i] = PathNames[k] /\ seq[i + 1] = PathNames[m]

\* C13: for any inputs, also a currentFiles that holds a path several
\* times, newFiles and removedFiles are strictly ascending: sorted and
\* without a path appearing twice.
C13_StrictlyAscending ==
  Compared => StrictlyAscending(NewFiles) /\ StrictlyAscending(RemovedFiles)

\* ---------------------------------------------------------------------- C14
\* C14: diffing a path list against a baseline of the same paths reports no
\* change, both when the baseline is given with files = X and when it is
\* what loadBaseline returns after saveBaseline(X).
C14_NoChanges ==
  /\ dpc = "compared" /\ baseline[1].files = currentFiles
       => NewFiles = << >> /\ RemovedFiles = << >>
  /\ dpc \in {"loaded", "roundtrip"} => baseline # << >>
  /\ dpc = "roundtrip" => NewFiles = << >> /\ RemovedFiles = << >>

\* An unsorted list with a repeated path went through the round trip.
C14_Witness ==
  /\ dpc = "roundtrip"
  /\ \E i, j \in 1..Len(currentFiles) : i # j /\ currentFiles[i] = currentFiles[j]
  /\ Cardinality(Range(currentFiles)) = 2
  /\ baselineFile.state = "file"

\* ---------------------------------------------------------------------- C15
IndexSucceeded == cpc = "index_done" /\ iresult # << >> /\ iresult[1].success
OnDisk == loadBaseline
SavedAt(t) ==
  /\ OnDisk # << >>
  /\ "timestamp" \in DOMAIN OnDisk[1]
  /\ OnDisk[1].timestamp = toISOString(t)

\* C15: across the plan and index runs the baseline file changes only in
\* the step in which an index run that is not a dry run returns after its
\* indexer finished successfully; plan runs, dry runs, blocked runs and
\* runs whose indexer failed or timed out leave it as it was.
C15_BaselineWrittenOnlyByIndex ==
  [][baselineFile' # baselineFile =>
       /\ cpc = "mgrep" /\ mgrepStarted
       /\ cpc' = "index_done" /\ iresult' # << >> /\ iresult'[1].success
       /\ ~iopts.dryRun]_vars

\* A second index run replaced the baseline the first one had saved.
C15_Witness ==
  /\ IndexSucceeded /\ clock = 2
  /\ SavedAt(2)
  /\ OnDisk[1].files = << "a.ts", "c.ts" >>

\* ---------------------------------------------------------------------- C16
\* C16: after every index run that succeeded and was not a dry run, the
\* baseline on disk is the one saved by that run and holds all file paths
\* of the plan the run computed, with --json or without, with --force or
\* without.
C16_BaselineAfterEveryIndex ==
  IndexSucceeded /\ ~iopts.dryRun /\ planFiles # << >> =>
    /\ SavedAt(clock)
    /\ Range(OnDisk[1].files) = Range(planFiles[1])
    /\ OnDisk[1].fileCount = Len(planFiles[1])

\* ---------------------------------------------------------------------- C17
Corrupted ==
  \/ baselineFile.state = "unreadable"
  \/ /\ baselineFile.state = "file"
     /\ LET parsed == JSONparse(baselineFile.text)
        IN ~parsed.ok \/ parsed.null \/ "files" \notin DOMAIN parsed.value
PlanRunOfComputedPlan == cpc = "plan_done" /\ planFiles # << >>

\* C17: a plan run that finds a corrupted baseline (not readable, not
\* valid JSON, or JSON that is not a record with a files list) succeeds and
\* takes the path of a missing baseline: all files of the plan are new.
C17_CorruptedBaselineIsNoBaseline ==
  PlanRunOfComputedPlan /\ Corrupted =>
    /\ presult[1].success
    /\ changesFile # << >>
    /\ changesFile[1].baselineDate = "none"
    /\ changesFile[1].newFiles = planFiles[1]

\* ---------------------------------------------------------------------- C18
\* C18: an index run without --force whose plan is red returns a failure
\* without regenerating the ignore file, starting mgrep or saving a
\* baseline; with a yellow or green plan the run goes on to mgrep.
C18_RedPlanBlocks ==
  /\ cpc \in {"mgrep", "index_done"} /\ ~iopts.force /\ ilevel = "red" =>
       /\ cpc = "index_done" /\ ~iresult[1].success
       /\ ~ignoreWritten /\ ~mgrepStarted
       /\ ~SavedAt(clock)
  /\ cpc \in {"mgrep", "index_done"} /\ ilevel \in {"yellow", "green"} =>
       ignoreWritten /\ mgrepStarted

\* A red plan blocked the second run, after a first run had saved a
\* baseline.
C18_Witness ==
  /\ cpc = "index_done" /\ ~iopts.force /\ ilevel = "red"
  /\ ~iresult[1].success /\ ~mgrepStarted
  /\ SavedAt(1) /\ clock = 2

\* ---------------------------------------------------------------------- C19
HeaderLength == 6
Globals == Len(GLOBAL_IGNORE_PATTERNS)
Known(id) == \E i \in 1..Len(REPO_SPECIFIC_IGNORES) : REPO_SPECIFIC_IGNORES[i].id = id
SpecificRules(id) ==
  LET i == CHOOSE k \in 1..Len(REPO_SPECIFIC_IGNORES) :
             /\ REPO_SPECIFIC_IGNORES[k].id = id
             /\ \A j \in 1..(k - 1) : REPO_SPECIFIC_IGNORES[j].id # id
  IN IF Known(id) THEN REPO_SPECIFIC_IGNORES[i].dropPaths ELSE << >>
Built == wpc # "idle"

\* C19: after the header the ignore text lists every global pattern in
\* declared order as '**/' + pattern, a negated one as '!**/' + the pattern
\* without its '!'; then, iff the id is known and has a rule of its own, a
\* blank line, three comment lines and its rules verbatim in declared
\* order; nothing but a last blank line follows. For an unknown id the
\* text has the global rules only.
C19_IgnoreText ==
  Built =>
    LET text == ignoreContent
        own == SpecificRules(repoId)
        section == IF Len(own) > 0 THEN 4 + Len(own) ELSE 0
    IN /\ Len(text) = HeaderLength + Globals + section + 1
       /\ \A i \in 1..HeaderLength : text[i].kind \in {"comment", "blank"}
       /\ \A i \in 1..Globals :
            LET line == text[HeaderLength + i]
                p == GLOBAL_IGNORE_PATTERNS[i]
            IN /\ line.kind = "pattern"
               /\ line.prefixed
               /\ line.bang = p.neg
               /\ line.comps = p.comps /\ line.dir = p.dir
       /\ section > 0 =>
            /\ text[HeaderLength + Globals + 1].kind = "blank"
            /\ \A i \in 2..4 : text[HeaderLength + Globals + i].kind = "comment"
            /\ \A i \in 1..Len(own) :
                 LET line == text[HeaderLength + Globals + 4 + i]
                 IN /\ line.kind = "pattern"
                    /\ ~line.prefixed
                    /\ line.bang = own[i].neg
                    /\ line.comps = own[i].comps /\ line.dir = own[i].dir
       /\ text[Len(text)].kind = "blank"
       /\ ~Known(repoId) =>
            Len(SelectSeq(text, LAMBDA l : l.kind = "pattern")) = Globals

\* The text of a repo with rules of its own was built and its walk is over.
C19_Witness ==
  /\ wpc = "done" /\ repoId = "convex-helpers" /\ rootState = "ok"
  /\ Len(ignoreContent) = HeaderLength + Globals + 4 + 3 + 1

\* ---------------------------------------------------------------------- C20
\* C20: in computePlan the walk of a repo whose manifest entry carries
\* mgrep.maxFileSizeBytes uses that value as its size limit, and the walk
\* of a repo without one uses the default of 1 MiB.
C20_OverrideIsTheLimit ==
  \A k \in 1..Len(walkLimits) :
    LET repo == enabledRepos[walkLimits[k].pos]
    IN walkLimits[k].maxFileSize =
         IF repo.mgrep.maxFileSizeBytes # 0 THEN repo.mgrep.maxFileSizeBytes
         ELSE 1024 * 1024

\* ---------------------------------------------------------------------- C21
\* The rules the patterns of the last suggest run would be, as written.
SuggestedRules ==
  IgnoreAdd([i \in 1..Len(sresult[1].patterns) |->
               PatternLine(FALSE, FALSE, sresult[1].patterns[i].comps, sresult[1].patterns[i].dir)])

Applied == spc = "suggest_done" /\ sresult[1].success /\ sresult[1].patternsAdded > 0
PlanFollowed == wpc = "done" /\ repoResult # << >>

\* C21: after suggest --apply added patterns to the manifest, the plan that
\* follows includes no file that matches one of them.
C21_PlanReflectsCustomIgnores ==
  Applied /\ PlanFollowed =>
    \A i \in 1..Len(repoResult.files) : ~Ignores(SuggestedRules, repoResult.files[i])

\* ---------------------------------------------------------------------- C22
\* C22: two walks of the same unchanged tree under the same rules and size
\* limit return the same file records in the same order.
C22_SameWalkTwice ==
  wpc = "done" /\ firstWalk # << >> => files = firstWalk[1]

\* ---------------------------------------------------------------------- C23
\* C23: with the file count fixed a larger byte total, and with the byte
\* total fixed a larger file count, never gets a lower level than the one
\* computed, in the order green < yellow < red.
C23_LevelMonotonic ==
  Classified =>
    /\ \A tb \in ByteInputs(thresholds) :
         tb >= totalBytes =>
           Rank(getWarningLevel(fileCount, tb)) >= Rank(ladder[1].warningLevel)
    /\ \A fc \in CountInputs(thresholds) :
         fc >= fileCount =>
           Rank(getWarningLevel(fc, totalBytes)) >= Rank(ladder[1].warningLevel)

\* A red result the file count alone decides, with a larger byte total
\* between the byte thresholds among the inputs compared.
C23_Witness ==
  /\ Classified
  /\ ladder[1].warningLevel = "red"
  /\ fileCount > thresholds.maxFileCountError
  /\ totalBytes <= thresholds.maxTotalBytesWarning
  /\ \E tb \in ByteInputs(thresholds) :
       tb > thresholds.maxTotalBytesWarning /\ tb <= thresholds.maxTotalBytesError

\* ---------------------------------------------------------------------- C24
\* The verdict of the hidden check and of the rules on the forward-slash
\* form of a path.
PassesAsPosix(comps) ==
  ~isHiddenPath(PosixString(comps)) /\ ~Ignores(ig, PosixString(comps))

\* C24: toPosixPath turns the backslash form of a path into its
\* forward-slash form, leaves the forward-slash form as it is and is
\* idempotent; on either platform the walked paths are forward-slash forms,
\* and a readable file within the limit in a listed directory is walked
\* exactly when its forward-slash form passes the hidden check and the rules.
C24_SeparatorIndependent ==
  /\ \A e \in tree :
       /\ toPosixPath(JoinWith(e.comps, BACKSLASH)) = PosixString(e.comps)
       /\ toPosixPath(PosixString(e.comps)) = PosixString(e.comps)
       /\ toPosixPath(toPosixPath(JoinWith(e.comps, BACKSLASH)))
            = toPosixPath(JoinWith(e.comps, BACKSLASH))
  /\ \A i \in 1..Len(files) :
       \E e \in tree : files[i].path = PosixString(e.comps) /\ PassesAsPosix(e.comps)
  /\ wpc = "done" =>
       \A e \in tree :
         Parent(e.comps) \in listed /\ e.kind = "file" /\ e.ok /\ e.size <= maxFileSize
           => (PosixString(e.comps) \in WalkedPaths <=> PassesAsPosix(e.comps))

\* A finished walk on the backslash platform that kept one file of a
\* subdirectory and dropped another by a rule.
C24_Witness ==
  /\ sep = BACKSLASH /\ wpc = "done"
  /\ \E e \in tree : Len(e.comps) >= 2 /\ PosixString(e.comps) \in WalkedPaths
  /\ \E e \in tree :
       /\ Len(e.comps) >= 2 /\ Parent(e.comps) \in listed /\ e.kind = "file"
       /\ Ignores(ig, PosixString(e.comps))

\* ---------------------------------------------------------------------- C25
GlobalRulesAlone ==
  /\ getRepoIgnoreConfig(repoId) = << >>
  /\ ig = IgnoreAdd(buildIgnoreContent(repoId))

\* C25: with the global rules alone and the default size limit, the plan of
\* the tree src/index.ts (2000 bytes), node_modules/lodash/index.js (500
\* bytes), .env (10 bytes) includes exactly src/index.ts: one file, 2000
\* bytes.
C25_WorkedExample1 ==
  tree = EXAMPLE1_TREE /\ GlobalRulesAlone /\ optMaxFileSize = 0 /\ wpc = "done" =>
    /\ files = << [path |-> PosixString(<< <<"src">>, <<"index", "ts">> >>), bytes |-> 2000] >>
    /\ repoResult.includedFileCount = 1
    /\ repoResult.includedTotalBytes = 2000
    /\ repoResult.files
         = << << << repoId >>, SLASH >> \o PosixString(<< <<"src">>, <<"index", "ts">> >>) >>

C25_Witness ==
  tree = EXAMPLE1_TREE /\ GlobalRulesAlone /\ optMaxFileSize = 0 /\ wpc = "done"

\* ---------------------------------------------------------------------- C26
\* The baseline on disk was saved by index run number t and the files have
\* not changed since.
UnchangedSinceSaved == \E t \in 1..clock : SavedAt(t) /\ changedAt < t

PlanRunReported == cpc = "plan_done" /\ presult[1].success

\* C26: a plan run after an index run saved the baseline, with no file
\* changed since, reports no new and no removed files and writes
\* hasChanges = false, with or without --repo.
C26_NoChangeNoDiff ==
  PlanRunReported /\ UnchangedSinceSaved =>
    /\ changesFile # << >>
    /\ changesFile[1].timestamp = toISOString(clock)
    /\ changesFile[1].newFiles = << >>
    /\ changesFile[1].removedFiles = << >>
    /\ ~changesFile[1].hasChanges

\* ---------------------------------------------------------------------- C27
\* An index run whose computePlan threw: planFiles stayed undefined.
IndexRunWithoutPlan == cpc \in {"mgrep", "index_done"} /\ planFiles = << >>

\* C27: an index run whose plan computation throws is not stopped by it,
\* with or without --force: the ignore file is regenerated and mgrep is
\* started, only mgrep can make the run fail, and the run saves no baseline.
C27_PlanFailureDoesNotStopIndex ==
  IndexRunWithoutPlan =>
    /\ ignoreWritten /\ mgrepStarted
    /\ cpc = "index_done" /\ ~iresult[1].success =>
         iresult[1].error \in {"mgrep exited with code", "mgrep timed out",
                               "Failed to start mgrep"}
    /\ ~SavedAt(clock)

\* Such a run without --force, --dry-run or --json returned success and
\* the baseline of an earlier run is still on disk.
C27_Witness ==
  /\ IndexRunWithoutPlan /\ cpc = "index_done" /\ iresult[1].success
  /\ iopts = NoOptions
  /\ SavedAt(0)

\* ---------------------------------------------------------------------- C28
\* What the handler of a close, error or timeout event asks for.
Asked(e) ==
  IF e.ev \in {"timeout", "error"} THEN "rejected"
  ELSE IF e.sync \/ e.code = "0" \/ IncludesFoundFiles(stdout \o stderr) THEN "resolved"
  ELSE "rejected"

\* C28: the promise is settled exactly once, by the first close, error or
\* timeout event, as that event asks and whatever comes later; a timeout
\* has sent SIGTERM; after a close or an error the timeout timer is not
\* armed; at most one termination timer is armed, and only after 'Initial
\* sync complete' was seen; a close that is the first of these events and
\* comes after the message resolves, whatever the exit code.
C28_SettledOnceByFirstEvent ==
  /\ events = << >> => promise = "pending" /\ settled = 0
  /\ events # << >> =>
       /\ settled = 1
       /\ promise = Asked(events[1])
       /\ events[1].ev = "timeout" => sigterm
       /\ events[1].ev = "close" /\ events[1].sync => promise = "resolved"
  /\ (\E i \in 1..Len(events) : events[i].ev \in {"close", "error"}) => timeout # "armed"
  /\ killTimers <= 1
  /\ killTimers = 1 <=> syncComplete

\* The timeout decided first; the termination timer fired and the child
\* closed after the message, which asks to resolve, and the promise is
\* still rejected.
C28_Witness ==
  /\ Len(events) >= 2
  /\ events[1].ev = "timeout" /\ events[2].ev = "close" /\ events[2].sync
  /\ promise = "rejected"
  /\ killFired = 1

\* ---------------------------------------------------------------------- C29
\* The customIgnores list in the manifest file, empty without the key.
Stored(file) ==
  IF file # << >> /\ "customIgnores" \in DOMAIN file[1] THEN file[1]["customIgnores"]
  ELSE << >>

NoRepeats(list) == \A i, j \in 1..Len(list) : list[i] = list[j] => i = j

\* C29: after a call of addCustomIgnores that succeeds the manifest file
\* holds every pattern stored before and every pattern passed, each once;
\* when all patterns passed were stored already, nothing is added and the
\* file is as before.
C29_CumulativeIdempotent ==
  lastAdd # << >> /\ lastAdd[1].success =>
    /\ Range(Stored(manifestFile))
         = Range(Stored(lastAdd[1].before)) \cup Range(lastAdd[1].patterns)
    /\ NoRepeats(Stored(manifestFile))
    /\ Range(lastAdd[1].patterns) \subseteq Range(Stored(lastAdd[1].before)) =>
         lastAdd[1].added = << >> /\ manifestFile = lastAdd[1].before

\* ---------------------------------------------------------------------- C30
\* C30: whatever --concurrency holds, the chunk loop ends (it runs at most
\* once per enabled repo) and the finished run has one result per enabled
\* repo, in manifest order, counted once in the summary; with a positive
\* value no more than that many calls are in flight, all of the current
\* chunk, and none between two chunks.
C30_SyncEveryRepoOnce ==
  /\ Len(chunks) <= Len(syncRepos)
  /\ syncpc = "done" =>
       /\ [i \in 1..Len(results) |-> results[i].id] = syncRepos
       /\ syncSummary[1].cloned + syncSummary[1].pulled + syncSummary[1].skipped
            + syncSummary[1].failed = Len(syncRepos)
  /\ Less(Num(0), concurrency) =>
       /\ Cardinality(inFlight) <= concurrency.n
       /\ syncpc = "awaiting" => inFlight \subseteq Range(chunks[chunkNo])
       /\ syncpc # "awaiting" => inFlight = {}

====
